---- MODULE Spec2Model ----
(***************************************************************************)
(* Model of the DeepResearch retrieval core (deep_research/search.py):     *)
(* search_all fans the general queries out to brave_search and the         *)
(* academic queries to semantic_search; each fetcher runs a retry loop     *)
(* around one API call guarded by an asyncio.Semaphore.  The functions a   *)
(* run is built from (fetch_text, check_relevance, process_paper,          *)
(* is_quality_page, semantic_dedup) are modelled as calls of their own,    *)
(* with their inputs drawn from bounded sets.                              *)
(*                                                                         *)
(* A task of the event loop runs atomically between two awaits, so every   *)
(* action below is one such stretch of a coroutine.                        *)
(***************************************************************************)
EXTENDS Integers, Sequences, FiniteSets, TLC

\* ---------------------------------------------------------------- bounds
MaxQueries == 3        \* most queries, general and academic, in a Query Set
MaxConcurrency == 2    \* largest configured CONCURRENCY
MaxFaults == 1         \* failed responses the network injects into a multi-query run
MaxResponseLen == 4    \* most characters in a reply of the LLM
MaxTexts == 3          \* most texts handed to semantic_dedup
MaxTokens == 3         \* largest max_tokens handed to compress_text
MaxSnippets == 3       \* most Snippets handed to filter_snippets
MaxItems == 2          \* most items in the response processed on its own
MaxRounds == 2         \* largest english_rounds and academic_rounds

\* ------------------------------------------------------ program constants
brave_backoff == 1
brave_max_retries == 3
semantic_backoff == 2
\* a budget of one retry more
semantic_max_retries_six == 5 + 1
semantic_max_retries == 5
sleep_after_error == 1
\* a page fetch with one retry more
fetch_max_retries_three == 2 + 1
fetch_max_retries == 2
MIN_CITATION_COUNT == 3
MAX_TOKENS_PER_URL == 2000
EST_CHAR_PER_TOKEN == 4
default_max_keep == 100
gemini_max_retries == 5
gemini_backoff == 2

\* Enough failed responses to exhaust both retry loops of a one-query run.
RetryFaults == (brave_max_retries + 1) + (semantic_max_retries + 1)

\* A falsy JSON body (None, {}): `if not data` returns the empty list.
Null == [falsy |-> TRUE, results |-> <<>>]
\* A JSON body that carries a list of results.
Json(results) == [falsy |-> FALSE, results |-> results]

VARIABLES
    general,             \* number of queries in keywords_dict["general"]
    academic,            \* number of queries in keywords_dict["academic"]
    subject,             \* the subject argument of search_all
    CONCURRENCY,         \* the configured concurrency (config.py)
    phase,               \* position of the search_all coroutine
    semaphore,           \* free slots of the web gate
    semantic_semaphore,  \* free slots of the academic gate
    brave,               \* brave_search task of each general query
    semantic,            \* semantic_search task of each academic query
    faults,              \* failed responses the network may still inject
    all_snippets,        \* the list search_all returns
    fetch,               \* one fetch_text call made for a search result
    relevance,           \* one check_relevance call
    paper,               \* one process_paper call
    quality,             \* one is_quality_page call
    dedup,               \* one semantic_dedup call and a second one on its selection
    compress,            \* one compress_text call
    filter,              \* one filter_snippets call
    web,                 \* the results of one web-search response being processed
    scholar,             \* the papers of one academic response being processed
    keywords,            \* one generate_keywords call
    run                  \* one run of the desktop research_task and its stop signal

searchVars == <<general, academic, subject, CONCURRENCY, phase, semaphore,
                semantic_semaphore, brave, semantic, faults, all_snippets>>

\* the calls modelled on their own
units == <<fetch, relevance, paper, quality, dedup, compress, filter, web,
           scholar, keywords, run>>

vars == <<searchVars, units>>

\* everything but the one call a step belongs to
exceptFetch ==
    <<searchVars, relevance, paper, quality, dedup, compress, filter,
      web, scholar, keywords, run>>
exceptRelevance ==
    <<searchVars, fetch, paper, quality, dedup, compress, filter,
      web, scholar, keywords, run>>
exceptDedup ==
    <<searchVars, fetch, relevance, paper, quality, compress, filter,
      web, scholar, keywords, run>>
exceptRun ==
    <<searchVars, fetch, relevance, paper, quality, dedup, compress,
      filter, web, scholar, keywords>>

\* A text: what identifies it and its length in characters.  Python's
\* None and "" are both falsy and of length 0 (`len(abstract or "")`).
Text(id, len) == [id |-> id, len |-> len]
None == Text("None", 0)
Empty == Text("", 0)
Truthy(text) == text.len > 0

\* body = abstract or "Abstract not available."
Placeholder == Text("Abstract not available.", 23)

\* ------------------------------------------------------------ pure parts

\* 2 ** n
RECURSIVE Pow2(_)
Pow2(n) == IF n = 0 THEN 1 ELSE 2 * Pow2(n - 1)

\* a wait that grows by one backoff per attempt
WaitTimeLinear(backoff, attempt) == backoff * (attempt + 1)

\* a wait whose exponent counts the attempts from 1
WaitTimeFromOne(backoff, attempt) == backoff * Pow2(attempt + 1)

\* wait_time = backoff * (2 ** attempt)
WaitTime(backoff, attempt) == backoff * Pow2(attempt)

\* for attempt in range(max_retries + 1)
InRange(attempt, max_retries) == attempt < max_retries + 1

\* a 429 that gives up one attempt early
RetryAfter429Short(attempt, max_retries) == attempt < max_retries - 1

\* `attempt < max_retries` on a 429: another attempt follows the sleep
RetryAfter429(attempt, max_retries) == attempt < max_retries

\* an except clause that re-raises on the last attempt
OnExceptionReraise(attempt, max_retries) ==
    IF attempt = max_retries THEN "raise" ELSE "sleep"

\* the except clause of the retry loop: give up on the last attempt,
\* otherwise sleep one second and go round again
OnException(attempt, max_retries) ==
    IF attempt = max_retries THEN "return_empty" ELSE "sleep"

\* gates with one slot too many
WebGateSlotsPlusOne(concurrency) == concurrency + 1
SemanticGateSlotsTwo == 1 + 1

\* a status check that treats an HTTP error like an exception
OnHttpErrorRetry(attempt, max_retries) ==
    IF attempt = max_retries THEN "return_empty" ELSE "sleep"

\* `if resp.status != 200: return []` (and `return ""` in fetch_text): an
\* HTTP error ends the unit of work at once
OnHttpError(attempt, max_retries) == "return_empty"

\* asyncio.Semaphore(CONCURRENCY) and asyncio.Semaphore(1)
WebGateSlots(concurrency) == concurrency
SemanticGateSlots == 1

\* A coroutine passes `async with semaphore` only when a slot is free.
CanAcquire(sem) == sem > 0

\* One search result of the web API for general query q, and the text
\* fetch_text returns for its URL.
WebResult(q, k) ==
    [object |-> TRUE, has_title |-> TRUE, title |-> <<"web title", q, k>>,
     url |-> <<"web url", q, k>>, description |-> <<"description", q, k>>,
     page |-> Text(<<"page", q, k>>, 600)]

\* One paper of the academic API for academic query q: the first has ten
\* citations, the following ones two.
Paper(q, k) ==
    [object |-> TRUE, has_title |-> TRUE, title |-> <<"paper", q, k>>,
     has_citationCount |-> TRUE,
     citationCount |-> IF k = 1 THEN 10 ELSE 2,
     abstract |-> Text(<<"abstract", q, k>>, 250),
     openAccessPdf |-> [object |-> FALSE, url |-> ""], url |-> "",
     year |-> 2020, venue |-> "venue",
     authors |-> <<[has_name |-> TRUE, name |-> "author"]>>,
     answer |-> <<"Y", "E", "S">>, fulltext |-> Empty]

\* A paper with exactly MIN_CITATION_COUNT citations, no abstract and no
\* url.
BarePaper(q, k) ==
    [Paper(q, k) EXCEPT !.citationCount = MIN_CITATION_COUNT,
                        !.abstract = None, !.answer = <<"N", "O">>]

\* The JSON bodies a 200 response can carry: a falsy body (None, {}), an
\* empty list of results, or a list of two results.
BraveData(q) ==
    {Null, Json(<<>>), Json(<<WebResult(q, 1), WebResult(q, 2)>>)}
SemanticData(q) ==
    {Null, Json(<<>>), Json(<<Paper(q, 1), Paper(q, 2), BarePaper(q, 3)>>)}

\* r.get("title", "No Title"): the default stands in for a missing key
\* only; a null or an empty title is returned as it is
Title(r) == IF r.has_title THEN r.title ELSE Text("No Title", 8)

\* Snippet.__init__, processing.py lines 24-34: ref_num starts as None.
\* Every call passes a non-empty metadata dict.
Snippet(title, body, url, source_type, metadata, abstract) ==
    [title |-> title, body |-> body, url |-> url, ref_num |-> None,
     source_type |-> source_type, metadata |-> metadata, abstract |-> abstract]

RECURSIVE SelectIdx(_, _)
\* the indices j >= k, ascending, at which the sequence of booleans is true
SelectIdx(flags, k) ==
    IF k > Len(flags) THEN <<>>
    ELSE (IF flags[k] THEN <<k>> ELSE <<>>) \o SelectIdx(flags, k + 1)

\* brave_search, lines 94-121: fetch every result that has a url, zip the
\* results with the fetched contents, one Snippet per non-empty content.
\* An item that is not a JSON object has no get: the first loop raises,
\* the handler of line 118 logs, and the empty list is returned.
BraveSnippets(results) ==
    LET fetched == SelectIdx([j \in 1..Len(results) |-> results[j].url # ""], 1)
        contents == [j \in 1..Len(fetched) |-> results[fetched[j]].page]
        n == IF Len(results) < Len(contents) THEN Len(results) ELSE Len(contents)
        pairs == [j \in 1..n |-> [r |-> results[j], content |-> contents[j]]]
        keep == SelectIdx([j \in 1..n |-> Truthy(pairs[j].content)], 1)
    IN  IF \E j \in 1..Len(results) : ~results[j].object THEN <<>>
        ELSE [j \in 1..Len(keep) |->
                Snippet(Title(pairs[keep[j]].r), pairs[keep[j]].content,
                        pairs[keep[j]].r.url, "web",
                        [description |-> pairs[keep[j]].r.description], None)]

\* p.get("citationCount", 0)
CitationCount(p) == IF p.has_citationCount THEN p.citationCount ELSE 0

\* a Citation Gate that also rejects a count equal to the threshold
CitationRejectedAtThreshold(count) == count <= MIN_CITATION_COUNT

\* if citation_count < MIN_CITATION_COUNT: return None
CitationRejected(count) == count < MIN_CITATION_COUNT

\* str.upper() on the characters that occur in a reply
Upper(c) ==
    CASE c = "y" -> "Y" [] c = "e" -> "E" [] c = "s" -> "S"
      [] c = "n" -> "N" [] c = "o" -> "O" [] OTHER -> c

\* needle in haystack, both sequences of characters
Contains(haystack, needle) ==
    \E k \in 0..(Len(haystack) - Len(needle)) :
        SubSeq(haystack, k + 1, k + Len(needle)) = needle

\* response.text of a reply without a text part: Python's None, which
\* is no sequence of characters
NoneResponse == <<"None">>

\* "YES" in response.upper()
SaysYes(response) ==
    Contains([j \in 1..Len(response) |-> Upper(response[j])], <<"Y", "E", "S">>)

\* a guard that lets the empty string through to the LLM
AbstractMissingNoneOnly(abstract) == abstract = None

\* if not abstract: return False
AbstractMissing(abstract) == ~Truthy(abstract)

\* check_relevance, given what gemini_complete returns when it is called:
\* the verdict, the number of gemini_complete calls made, and whether
\* the call raises: None has no upper(), line 139
check_relevance(abstract, response) ==
    IF AbstractMissing(abstract)
    THEN [value |-> FALSE, llm_calls |-> 0, raised |-> FALSE]
    ELSE IF response = NoneResponse
    THEN [value |-> FALSE, llm_calls |-> 1, raised |-> TRUE]
    ELSE [value |-> SaysYes(response), llm_calls |-> 1, raised |-> FALSE]

\* url = (p.get("openAccessPdf") or {}).get("url") or p.get("url") or "".
\* openAccessPdf is a non-empty JSON object (object) or is missing, null
\* or {}; its url is "" when missing, null or empty.
PaperUrl(p) ==
    IF p.openAccessPdf.object /\ p.openAccessPdf.url # ""
    THEN p.openAccessPdf.url ELSE p.url

\* an abstract counted as long enough only above 200 characters
AbstractLongEnoughAbove(abstract) == Truthy(abstract) /\ abstract.len > 200

\* if abstract and len(abstract) >= 200
AbstractLongEnough(abstract) == Truthy(abstract) /\ abstract.len >= 200

\* elif url: a full-text fetch is attempted
TriesFetch(abstract, url) == ~AbstractLongEnough(abstract) /\ url # ""

\* process_paper, lines 215-227: the body of the Snippet
Body(abstract, url, fetched) ==
    LET body == IF AbstractLongEnough(abstract) THEN abstract
                ELSE IF url # "" /\ Truthy(fetched)
                                 /\ fetched.len > (IF Truthy(abstract) THEN abstract.len ELSE 0)
                     THEN fetched
                     ELSE Empty
    IN  IF ~Truthy(body)
        THEN (IF Truthy(abstract) THEN abstract ELSE Placeholder)
        ELSE body

\* [a["name"] for a in p.get("authors", [])] raises KeyError for an
\* author without a name
AuthorsNamed(p) == \A k \in 1..Len(p.authors) : p.authors[k].has_name

\* meta, lines 207-213
Meta(p, citation_count) ==
    [year |-> p.year, journal |-> p.venue, citations |-> citation_count,
     authors |-> [k \in 1..Len(p.authors) |-> p.authors[k].name],
     has_open_access |-> p.openAccessPdf.object]

\* a Relevance Gate consulted before the Citation Gate has answered
JudgeConsultedFirst(rejected, subj) == subj # ""

\* if subject: await check_relevance(...), line 198, reached only when
\* the Citation Gate of lines 187-192 did not return
JudgeConsulted(rejected, subj) == ~rejected /\ subj # ""

\* what process_paper returns for a paper that yields no Snippet
NoRecord == None

\* process_paper, lines 184-242, given the reply of the LLM and the text a
\* full-text fetch yields: the Snippet or None, the gate that rejected the
\* paper, the gemini_complete calls made and the urls fetched.  An
\* exception inside the try block is caught and None returned
\* ("exception"); for an item that is not a JSON object p.get raises in
\* the try block and again in the handler of line 241, and the exception
\* leaves process_paper ("raised").
process_paper(p, subj, response, fetched) ==
    LET relevant == check_relevance(p.abstract, response)
        url == PaperUrl(p)
        rejected == CitationRejected(CitationCount(p))
        llm_calls == IF JudgeConsulted(rejected, subj)
                     THEN relevant.llm_calls ELSE 0
    IN  IF ~p.object
        THEN [snippet |-> NoRecord, rejected_by |-> "raised",
              llm_calls |-> 0, fetched_urls |-> <<>>]
        ELSE IF rejected
        THEN [snippet |-> NoRecord, rejected_by |-> "citation",
              llm_calls |-> llm_calls, fetched_urls |-> <<>>]
        ELSE IF subj # "" /\ relevant.raised
        THEN [snippet |-> NoRecord, rejected_by |-> "exception",
              llm_calls |-> llm_calls, fetched_urls |-> <<>>]
        ELSE IF subj # "" /\ ~relevant.value
        THEN [snippet |-> NoRecord, rejected_by |-> "relevance",
              llm_calls |-> llm_calls, fetched_urls |-> <<>>]
        ELSE IF ~AuthorsNamed(p)
        THEN [snippet |-> NoRecord, rejected_by |-> "exception",
              llm_calls |-> llm_calls, fetched_urls |-> <<>>]
        ELSE [snippet |-> Snippet(Title(p), Body(p.abstract, url, fetched),
                                  url, "semantic_scholar",
                                  Meta(p, CitationCount(p)), p.abstract),
              rejected_by |-> "",
              llm_calls |-> llm_calls,
              fetched_urls |-> IF TriesFetch(p.abstract, url) THEN <<url>> ELSE <<>>]

\* semantic_search, lines 244-254: snippets = [r for r in results if r is not None]
\* An exception that leaves a process_paper task leaves gather too; the
\* handler of line 251 logs and the empty list is returned.
SemanticSnippets(papers, subj) ==
    LET results == [j \in 1..Len(papers) |->
                       process_paper(papers[j], subj, papers[j].answer,
                                     papers[j].fulltext)]
        keep == SelectIdx([j \in 1..Len(papers) |->
                              results[j].snippet # NoRecord], 1)
    IN  IF \E j \in 1..Len(papers) : results[j].rejected_by = "raised"
        THEN <<>>
        ELSE [j \in 1..Len(keep) |-> results[keep[j]].snippet]

\* a comparison with the text as written
SameCase(phrase) == phrase

\* str.lower() on the phrases that occur in a page
Lower(phrase) ==
    CASE phrase = "Buy Now" -> "buy now"
      [] phrase = "CLICK HERE" -> "click here"
      [] phrase = "<HTML" -> "<html"
      [] phrase = "<DIV" -> "<div"
      [] OTHER -> phrase

HYPE_PATTERNS ==
    {"buy now", "order now", "click here", "call now", "add to cart",
     "sign up today", "subscribe now", "book now", "limited offer"}

\* is_quality_page(text, source_type); a text is its length and the
\* phrases that occur in it as written
is_quality_page(text, source_type) ==
    IF text.len = 0 THEN FALSE
    ELSE IF source_type = "semantic_scholar" THEN text.len >= 100
    ELSE IF text.len < 500 THEN FALSE
    ELSE IF \E pattern \in HYPE_PATTERNS :
                pattern \in {Lower(phrase) : phrase \in text.occurs}
         THEN FALSE
         ELSE TRUE

\* The tokens TfidfVectorizer finds in a text, stop words removed, each
\* once: none in the empty text and in a text of stop words only; "t1"
\* has six words, "t2" the same six and one more, "t3" the words of "t2"
\* and one more; any other text is one word of its own.
Tokens(text) ==
    CASE text \in {"", "the"} -> {}
      [] text = "t1" -> {"w1", "w2", "w3", "w4", "w5", "w6"}
      [] text = "t2" -> {"w1", "w2", "w3", "w4", "w5", "w6", "x"}
      [] text = "t3" -> {"w1", "w2", "w3", "w4", "w5", "w6", "x", "y"}
      [] OTHER -> {text}

\* Ten times the square of the weight of a word that df of n texts hold,
\* rounded: idf = ln((1 + n) / (1 + df)) + 1, as TfidfVectorizer smooths it
IdfSq(n, df) ==
    CASE df = n -> 10
      [] <<n, df>> = <<2, 1>> -> 20
      [] <<n, df>> = <<3, 1>> -> 29
      [] <<n, df>> = <<3, 2>> -> 17
      [] <<n, df>> = <<4, 1>> -> 37
      [] <<n, df>> = <<4, 2>> -> 23
      [] <<n, df>> = <<4, 3>> -> 15
      [] <<n, df>> = <<5, 1>> -> 44
      [] <<n, df>> = <<5, 2>> -> 29
      [] <<n, df>> = <<5, 3>> -> 20
      [] <<n, df>> = <<5, 4>> -> 14

\* The inner product of the TF-IDF vectors of two of the texts, fitted on
\* these texts, line 118: the words in both, each with its squared weight
Dot(texts, a, b) ==
    LET n == Len(texts)
        both == Tokens(a) \cap Tokens(b)
        df == [w \in both |->
                  Cardinality({k \in 1..n : w \in Tokens(texts[k])})]
        sum[d \in 0..n] ==
            IF d = 0 THEN 0
            ELSE sum[d - 1]
                     + Cardinality({w \in both : df[w] = d}) * IdfSq(n, d)
    IN  sum[n]

\* sim_matrix, line 123: the cosine of two of the texts in the vectors
\* fitted on this call's texts, as its square in ten-thousandths; 0 for a
\* text without tokens.  The threshold 0.85 is 7225.
Sim(texts, a, b) ==
    LET norms == Dot(texts, a, a) * Dot(texts, b, b)
        dot == Dot(texts, a, b)
    IN  IF norms = 0 THEN 0 ELSE (10000 * dot * dot) \div norms

\* a vectorizer that never fails
VocabularyNeverEmpty(texts) == FALSE

\* TfidfVectorizer.fit_transform raises ValueError on an empty vocabulary
EmptyVocabulary(texts) == \A k \in 1..Len(texts) : Tokens(texts[k]) = {}

\* a list that repeats the first index
RangeRepeating(n) == [k \in 1..n |-> 0]

\* a marking loop that drops every later text
MarkedAll(texts, i, seen) ==
    {j \in (i + 1)..(Len(texts) - 1) : j \notin seen}

\* list(range(n))
Range(n) == [k \in 1..n |-> k - 1]

\* a marking loop that looks at the next text only
MarkedNextOnly(texts, i, seen) ==
    {j \in (i + 1)..(i + 1) :
        j < Len(texts) /\ j \notin seen
            /\ Sim(texts, texts[i + 1], texts[j + 1]) > 7225}

\* for j in range(i + 1, len(texts)): the indices marked as seen
Marked(texts, i, seen) ==
    {j \in (i + 1)..(Len(texts) - 1) :
        j \notin seen /\ Sim(texts, texts[i + 1], texts[j + 1]) > 7225}

\* a cap that stops one index late
CapExceeded(kept, max_keep) == kept > max_keep

\* if len(keep_indices) >= max_keep: break
CapReached(kept, max_keep) == kept >= max_keep

\* a shortcut for the empty list only
NoText(texts) == Len(texts) < 1

\* if len(texts) <= 1: return [0]
AtMostOneText(texts) == Len(texts) <= 1

RECURSIVE DedupLoop(_, _, _, _, _)
\* for i in range(len(texts)), lines 136-148; indices count from 0
DedupLoop(texts, max_keep, i, keep_indices, seen_indices) ==
    IF i >= Len(texts) THEN keep_indices
    ELSE IF i \in seen_indices
    THEN DedupLoop(texts, max_keep, i + 1, keep_indices, seen_indices)
    ELSE LET kept == Append(keep_indices, i)
             seen == seen_indices \cup {i}
         IN  IF CapReached(Len(kept), max_keep) THEN kept
             ELSE DedupLoop(texts, max_keep, i + 1, kept,
                            seen \cup Marked(texts, i, seen))

\* semantic_dedup(texts, max_keep): the indices, from 0, of the texts kept
semantic_dedup(texts, max_keep) ==
    IF Len(texts) = 0 THEN <<>>
    ELSE IF AtMostOneText(texts) THEN <<0>>
    ELSE IF EmptyVocabulary(texts)
    THEN Range(IF Len(texts) < max_keep THEN Len(texts) ELSE max_keep)
    ELSE DedupLoop(texts, max_keep, 0, <<>>, {})

\* [texts[i] for i in indices]
SelectTexts(texts, indices) == [k \in 1..Len(indices) |-> texts[indices[k] + 1]]

RECURSIVE Extend(_, _)
\* for res in results: all_snippets.extend(res)
Extend(results, n) ==
    IF n = 0 THEN <<>> ELSE Extend(results, n - 1) \o results[n].result

\* A page: the content it carries, its length in characters and the
\* phrases and tags that occur in it as written.  A prefix of a page has
\* the same content and a smaller length.
Page(id, len, occurs) == [id |-> id, len |-> len, occurs |-> occurs]

\* The input of compress_text: a page and its main content as
\* trafilatura.extract finds it, None when it finds nothing.
Html(id, len, occurs, main) ==
    [id |-> id, len |-> len, occurs |-> occurs, main |-> main]

\* len(text) // EST_CHAR_PER_TOKEN
token_count(text) == text.len \div EST_CHAR_PER_TOKEN

\* text[:n]
Prefix(text, n) ==
    IF n >= text.len THEN text
    ELSE IF n = 0 THEN Empty
    ELSE [text EXCEPT !.len = n]

\* "<html" in html.lower() or "<body" in html.lower() or "<div" in html.lower()
LooksLikeMarkup(html) ==
    \E tag \in {"<html", "<body", "<div"} :
        tag \in {Lower(phrase) : phrase \in html.occurs}

\* "<html" in html.lower()
HasHtmlTag(html) == "<html" \in {Lower(phrase) : phrase \in html.occurs}

\* compress_text, lines 67-70
Truncated(text, max_tokens) ==
    IF token_count(text) > max_tokens
    THEN Prefix(text, max_tokens * EST_CHAR_PER_TOKEN)
    ELSE text

\* compress_text(html, max_tokens)
compress_text(html, max_tokens) ==
    IF ~Truthy(html) \/ html.len < 10 THEN Empty
    ELSE LET text == IF ~LooksLikeMarkup(html) THEN html ELSE html.main
         IN  IF ~Truthy(text)
             THEN (IF html.len > 0 /\ ~HasHtmlTag(html)
                   THEN Truncated(html, max_tokens)
                   ELSE Empty)
             ELSE Truncated(text, max_tokens)

\* a Snippet that keeps the body it came with
OriginalBody(s, txt) == s.body

\* s.body = body
FilteredBody(s, txt) == txt

\* a survivor built anew, without its abstract
KeptRebuilt(s, body) ==
    Snippet(s.title, FilteredBody(s, body), s.url, s.source_type,
            s.metadata, None)

\* s, body = url_to_snippet[idx]; s.body = body; result.append(s)
Kept(s, body) == [s EXCEPT !.body = FilteredBody(s, body)]

\* filter_snippets, lines 97-130: compress every body, keep the Snippets
\* whose text is non-empty and passes is_quality_page, deduplicate the
\* texts with the default max_keep, and give the survivors their text as
\* body.  The similarity of two texts is that of their contents.
filter_snippets(snippets) ==
    LET txt == [k \in 1..Len(snippets) |->
                   compress_text(snippets[k].body, MAX_TOKENS_PER_URL)]
        passed == SelectIdx([k \in 1..Len(snippets) |->
                                Truthy(txt[k])
                                    /\ is_quality_page(txt[k], snippets[k].source_type)], 1)
        bodies == [k \in 1..Len(passed) |-> txt[passed[k]]]
        keep_idx == semantic_dedup([k \in 1..Len(bodies) |-> bodies[k].id],
                                   default_max_keep)
    IN  IF Len(bodies) = 0 THEN <<>>
        ELSE [k \in 1..Len(keep_idx) |->
                Kept(snippets[passed[keep_idx[k] + 1]], bodies[keep_idx[k] + 1])]

\* A value of the JSON object the LLM was asked for: the key is absent,
\* or its value is null, a scalar, or a list of queries.
Absent == [shape |-> "absent", items |-> <<>>]

\* A text of the LLM: None, the empty string, prose, or JSON (an object
\* with the two values, an array, a scalar), with or without a markdown
\* code fence around it.
LlmText(kind, fenced, gen, acad) ==
    [kind |-> kind, fenced |-> fenced, general |-> gen, academic |-> acad]

\* core.gemini_complete, lines 23-38: response.text, or "" after any
\* exception
core_gemini_complete(errored, response_text) ==
    IF errored THEN LlmText("empty", FALSE, Absent, Absent) ELSE response_text

\* text.replace("```json", "").replace("```", "").strip()
Stripped(text) == [text EXCEPT !.fenced = FALSE]

\* json.loads raises JSONDecodeError
Unparseable(text) == text.fenced \/ text.kind \in {"empty", "prose"}

\* data.get(key, []), and [str(value)] for a value that is not a list
AsList(value) ==
    CASE value.shape = "absent" -> <<>>
      [] value.shape = "list" -> value.items
      [] value.shape = "null" -> <<(<<"None">>)>>
      [] OTHER -> <<(<<"str of the value">>)>>

\* the lists padded to the rounds, or cut to them
PaddedOrCut(list, rounds, subj, label) ==
    [k \in 1..rounds |-> IF k <= Len(list) THEN list[k] ELSE <<subj, label, k>>]

\* the fallback queries of lines 91-94
Fallback(rounds, subj, label) == [k \in 1..rounds |-> <<subj, label, k>>]

\* generate_keywords, lines 40-95, on the text gemini_complete returned:
\* the two lists, or the exception that leaves the function.  Only
\* JSONDecodeError is handled: None has no replace, and a parsed value
\* that is not an object has no get.
generate_keywords(subj, english_rounds, academic_rounds, text) ==
    IF text.kind = "none"
    THEN [raised |-> TRUE, general |-> <<>>, academic |-> <<>>]
    ELSE IF Unparseable(Stripped(text))
    THEN [raised |-> FALSE,
          general |-> Fallback(english_rounds, subj, ""),
          academic |-> Fallback(academic_rounds, subj, "research")]
    ELSE IF text.kind # "object"
    THEN [raised |-> TRUE, general |-> <<>>, academic |-> <<>>]
    ELSE [raised |-> FALSE,
          general |-> PaddedOrCut(AsList(text.general), english_rounds, subj, ""),
          academic |-> PaddedOrCut(AsList(text.academic), academic_rounds, subj,
                                   "research paper")]

\* a result list with the academic results first
CollectAcademicFirst(brave_results, semantic_results) ==
    Extend(semantic_results, Len(semantic_results))
        \o Extend(brave_results, Len(brave_results))

\* a result list that leaves the academic results out
CollectBraveOnly(brave_results, semantic_results) ==
    Extend(brave_results, Len(brave_results))

\* search_all, lines 279-282
Collect(brave_results, semantic_results) ==
    Extend(brave_results, Len(brave_results))
        \o Extend(semantic_results, Len(semantic_results))

\* ------------------------------------------------------------------ state

\* A coroutine object that has been created and not yet scheduled.
NewTask ==
    [pc |-> "created", attempt |-> 0, calls |-> 0, hist |-> <<>>,
     wait |-> 0, slept |-> 0, data |-> Null, result |-> <<>>]

Subjects == {"", "topic"}

\* No call is modelled on its own.
NoFetch ==
    [pc |-> "off", attempt |-> 0, calls |-> 0, hist |-> <<>>, slept |-> 0,
     result |-> Empty, snippets |-> <<>>]
NoRelevance ==
    [pc |-> "off", subject |-> "", title |-> "", abstract |-> None,
     attempt |-> 0, llm_calls |-> 0, slept |-> 0, errored |-> FALSE,
     response |-> <<>>, result |-> FALSE]
NoPaper ==
    [pc |-> "off", subject |-> "", response |-> <<>>, fetched |-> Empty,
     p |-> [object |-> TRUE, has_title |-> FALSE, title |-> None,
            has_citationCount |-> FALSE, citationCount |-> 0,
            abstract |-> None,
            openAccessPdf |-> [object |-> FALSE, url |-> ""], url |-> "",
            year |-> 2020, venue |-> "venue", authors |-> <<>>],
     out |-> [snippet |-> NoRecord, rejected_by |-> "", llm_calls |-> 0,
              fetched_urls |-> <<>>]]
NoQuality ==
    [pc |-> "off", text |-> [len |-> 0, occurs |-> {}], source_type |-> "web",
     result |-> FALSE]
NoDedup ==
    [pc |-> "off", texts |-> <<>>, max_keep |-> 0, keep |-> <<>>,
     selected |-> <<>>, again_max_keep |-> 0, again |-> <<>>,
     repeat_texts |-> <<>>, repeat |-> <<>>]
NoCompress ==
    [pc |-> "off", html |-> Empty, max_tokens |-> 0, result |-> Empty]
NoFilter ==
    [pc |-> "off", snippets |-> <<>>, MAX_SNIPPETS_TO_KEEP |-> 0,
     result |-> <<>>]

NoWeb == [pc |-> "off", results |-> <<>>, snippets |-> <<>>]
NoScholar ==
    [pc |-> "off", papers |-> <<>>, subject |-> "", snippets |-> <<>>]
NoKeywords ==
    [pc |-> "off", subject |-> "", english_rounds |-> 0, academic_rounds |-> 0,
     text |-> LlmText("empty", FALSE, Absent, Absent),
     out |-> [raised |-> FALSE, general |-> <<>>, academic |-> <<>>]]
NoRun ==
    [pc |-> "off", is_running |-> FALSE, stop_event |-> FALSE,
     stopping |-> FALSE, passed |-> "",
     started |-> <<>>, after_stop |-> {}]

\* Every call but the named one is not modelled.
OthersOff(unit) ==
    /\ IF unit = "fetch" THEN TRUE ELSE fetch = NoFetch
    /\ IF unit = "relevance" THEN TRUE ELSE relevance = NoRelevance
    /\ IF unit = "paper" THEN TRUE ELSE paper = NoPaper
    /\ IF unit = "quality" THEN TRUE ELSE quality = NoQuality
    /\ IF unit = "dedup" THEN TRUE ELSE dedup = NoDedup
    /\ IF unit = "compress" THEN TRUE ELSE compress = NoCompress
    /\ IF unit = "filter" THEN TRUE ELSE filter = NoFilter
    /\ IF unit = "web" THEN TRUE ELSE web = NoWeb
    /\ IF unit = "scholar" THEN TRUE ELSE scholar = NoScholar
    /\ IF unit = "keywords" THEN TRUE ELSE keywords = NoKeywords
    /\ IF unit = "run" THEN TRUE ELSE run = NoRun


InitCommon ==
    /\ OthersOff("")
    /\ phase = "start"
    /\ semaphore = 0
    /\ semantic_semaphore = 0
    /\ brave = [q \in 1..general |-> NewTask]
    /\ semantic = [q \in 1..academic |-> NewTask]
    /\ all_snippets = <<>>

\* Multi-query runs with a bounded number of failed responses.
InitBatch ==
    /\ general \in 0..MaxQueries
    /\ academic \in 0..(MaxQueries - general)
    /\ CONCURRENCY \in 1..MaxConcurrency
    /\ subject = "topic"
    /\ faults = MaxFaults
    /\ InitCommon

\* Runs of at most one query per kind in which every response may fail.
InitRetry ==
    /\ general \in 0..1
    /\ academic \in 0..1
    /\ CONCURRENCY = 1
    /\ subject \in Subjects
    /\ faults = RetryFaults
    /\ InitCommon

\* Runs of two queries of one kind that contend for a single slot, in which
\* every response may fail.
InitContend ==
    /\ general \in {0, 2}
    /\ academic = 2 - general
    /\ CONCURRENCY = 1
    /\ subject = "topic"
    /\ faults = RetryFaults
    /\ InitCommon

\* No search_all run: one of the functions is called on its own.
NoSearch ==
    /\ general = 0 /\ academic = 0
    /\ subject = ""
    /\ CONCURRENCY = 1
    /\ phase = "off"
    /\ semaphore = 0 /\ semantic_semaphore = 0
    /\ brave = <<>> /\ semantic = <<>>
    /\ faults = 0
    /\ all_snippets = <<>>

\* fetch_text is called for the url of one search result.
InitFetch ==
    /\ NoSearch
    /\ fetch = [NoFetch EXCEPT !.pc = "get"]
    /\ OthersOff("fetch")

\* check_relevance(subject, title, abstract) is called.
InitRelevance ==
    /\ NoSearch
    /\ \E subj \in Subjects, title \in {"No Title", "a title"},
          abstract \in {None, Empty, Text("abstract", 150)} :
          relevance = [NoRelevance EXCEPT !.pc = "call", !.subject = subj,
                                          !.title = title, !.abstract = abstract]
    /\ OthersOff("relevance")

\* The papers of a response of the academic API: the title absent, null,
\* empty or a text, citationCount absent or around MIN_CITATION_COUNT,
\* the abstract absent, empty or around the 200 characters of the body
\* selection, with or without urls, and the authors with or without their
\* names.
Papers ==
    {p \in [object : {TRUE}, has_title : BOOLEAN,
            title : {None, Empty, Text("a paper", 7)},
            has_citationCount : BOOLEAN,
            citationCount : {0, MIN_CITATION_COUNT - 1, MIN_CITATION_COUNT,
                             MIN_CITATION_COUNT + 1},
            abstract : {None, Empty, Text("abstract", 150),
                        Text("abstract", 199), Text("abstract", 200)},
            openAccessPdf : {[object |-> FALSE, url |-> ""],
                             [object |-> TRUE, url |-> ""],
                             [object |-> TRUE, url |-> "http://pdf"]},
            url : {"", "http://paper"},
            year : {2020}, venue : {"venue"},
            authors : {<<[has_name |-> TRUE, name |-> "author"]>>,
                       <<[has_name |-> FALSE, name |-> ""]>>}] :
        /\ ~p.has_citationCount => p.citationCount = 0
        /\ ~p.has_title => p.title = None}

\* process_paper(session, p) is called inside semantic_search.
InitPaper ==
    /\ NoSearch
    /\ \E p \in Papers, subj \in Subjects :
          paper = [NoPaper EXCEPT !.pc = "call", !.p = p, !.subject = subj]
    /\ OthersOff("paper")

\* The texts handed to is_quality_page: the empty text, and texts around
\* the two length thresholds with any of four phrases in them, as written.
QualityTexts ==
    {[len |-> 0, occurs |-> {}]}
        \cup [len : {99, 100, 499, 500, 600},
              occurs : SUBSET {"buy now", "Buy Now", "CLICK HERE", "results"}]

\* is_quality_page(text, source_type) is called.
InitQuality ==
    /\ NoSearch
    /\ \E text \in QualityTexts, source_type \in {"web", "semantic_scholar"} :
          quality = [NoQuality EXCEPT !.pc = "call", !.text = text,
                                      !.source_type = source_type]
    /\ OthersOff("quality")

\* The texts handed to semantic_dedup: two without tokens, three that
\* share six words and one unlike all others.
DedupTexts == {"", "the", "t1", "t2", "t3", "other"}

\* semantic_dedup(texts, max_keep) is called.
InitDedup ==
    /\ NoSearch
    /\ \E n \in 0..MaxTexts, max_keep \in (0 - 1)..(MaxTexts + 1) :
          \E texts \in [1..n -> DedupTexts] :
              dedup = [NoDedup EXCEPT !.pc = "call", !.texts = texts,
                                      !.max_keep = max_keep]
    /\ OthersOff("dedup")

\* The inputs of compress_text: None, the empty string, plain texts of
\* every length about the token budgets, and pages with markup tags whose
\* main content is missing, empty, short or long.
CompressInputs ==
    {None, Empty}
        \cup {Html("t1", len, {}, None) : len \in 1..(4 * MaxTokens + 5)}
        \cup {Html("t1", len, tags, main) :
                 len \in {5, 12, 4 * MaxTokens + 5},
                 tags \in {{"<html"}, {"<HTML"}, {"<body"}, {"<div"}, {"<DIV"},
                           {"<html", "<div"}},
                 main \in {None, Empty, Page("t2", 3, {}),
                           Page("t2", 4 * MaxTokens + 5, {})}}

\* compress_text(html, max_tokens) is called.
InitCompress ==
    /\ NoSearch
    /\ \E html \in CompressInputs, max_tokens \in 0..MaxTokens :
          compress = [NoCompress EXCEPT !.pc = "call", !.html = html,
                                        !.max_tokens = max_tokens]
    /\ OthersOff("compress")

\* The bodies of the Snippets handed to filter_snippets: a text too short
\* to be kept, texts about the length thresholds of is_quality_page, a
\* text with a hype phrase, and a marked-up page whose main content is
\* over the token budget.
FilterBodies ==
    {Html("other", 5, {}, None),
     Html("t1", 499, {}, None),
     Html("t1", 600, {}, None),
     Html("t2", 600, {"Buy Now"}, None),
     Html("page", 9000, {"<html"},
          Page("other", MAX_TOKENS_PER_URL * EST_CHAR_PER_TOKEN + 4, {}))}

\* filter_snippets(snippets) is called under some configured
\* MAX_SNIPPETS_TO_KEEP.
InitFilter ==
    /\ NoSearch
    /\ \E n \in 0..MaxSnippets, max_snippets \in {1, default_max_keep} :
          \E bodies \in [1..n -> FilterBodies],
             kinds \in [1..n -> {"web", "semantic_scholar"}] :
              filter = [NoFilter EXCEPT
                           !.pc = "call",
                           !.MAX_SNIPPETS_TO_KEEP = max_snippets,
                           !.snippets =
                               [k \in 1..n |->
                                   Snippet(<<"snippet", k>>, bodies[k],
                                           <<"url", k>>, kinds[k],
                                           IF kinds[k] = "web"
                                           THEN [description |-> Text(<<"about", k>>, 20)]
                                           ELSE [year |-> 2020, journal |-> "venue",
                                                 citations |-> 10,
                                                 authors |-> <<"author">>,
                                                 has_open_access |-> FALSE],
                                           IF kinds[k] = "web" THEN None
                                           ELSE Text("abstract", 150))]]
    /\ OthersOff("filter")

\* The items of the "results" list of a web-search response: two results
\* whose pages are fetched, one without url, one whose page fetch yields
\* nothing (an error status, or a document pdf_to_text or docx_to_text
\* cannot decode), results whose title is missing, null or empty, and an
\* item that is not a JSON object.  "" stands for a url that is missing,
\* null or empty.
WebItems ==
    LET item(name, has_title, title, url, len) ==
            [object |-> TRUE, has_title |-> has_title, title |-> title,
             url |-> url, description |-> Text(<<"about", name>>, 20),
             page |-> IF len = 0 THEN Empty ELSE Text(name, len)]
    IN  {item("first", TRUE, Text("first", 5), "http://first", 600),
         item("second", TRUE, Text("second", 6), "http://second", 600),
         item("no url", TRUE, Text("no url", 6), "", 0),
         item("unreachable", TRUE, Text("unreachable", 11), "http://unreachable", 0),
         item("untitled", FALSE, None, "http://untitled", 600),
         item("null title", TRUE, None, "http://null", 600),
         item("empty title", TRUE, Empty, "http://empty", 600),
         [item("", FALSE, None, "", 0) EXCEPT !.object = FALSE]}

\* brave_search has received a response with these results.
InitWeb ==
    /\ NoSearch
    /\ \E n \in 0..MaxItems :
          \E results \in [1..n -> WebItems] :
              web = [NoWeb EXCEPT !.pc = "call", !.results = results]
    /\ OthersOff("web")

\* The items of the "data" list of an academic response: two papers that
\* pass both gates, one with too few citations, one with an author
\* without a name, one with a null title, and an item that is not a JSON
\* object.
ScholarItems ==
    LET item(name, title, citations, named) ==
            [Paper(0, 1) EXCEPT
                !.title = title, !.citationCount = citations,
                !.abstract = Text(name, 250),
                !.authors = <<[has_name |-> named,
                               name |-> IF named THEN "author" ELSE ""]>>]
    IN  {item("first", Text("first paper", 11), 10, TRUE),
         item("second", Text("second paper", 12), 10, TRUE),
         item("little cited", Text("little cited", 12), 2, TRUE),
         item("unnamed author", Text("unnamed author", 14), 10, FALSE),
         item("null title", None, 10, TRUE),
         [item("", None, 0, TRUE) EXCEPT !.object = FALSE]}

\* semantic_search has received a response with these papers.
InitScholar ==
    /\ NoSearch
    /\ \E n \in 0..MaxItems, subj \in Subjects :
          \E papers \in [1..n -> ScholarItems] :
              scholar = [NoScholar EXCEPT !.pc = "call", !.papers = papers,
                                          !.subject = subj]
    /\ OthersOff("scholar")

\* The values under "general" and "academic" in the reply.
KeywordValues ==
    {Absent, [shape |-> "null", items |-> <<>>],
     [shape |-> "scalar", items |-> <<>>]}
    \cup {[shape |-> "list", items |-> [k \in 1..n |-> <<"query", k>>]] :
              n \in 0..(MaxRounds + 1)}

\* The texts response.text can be.
LlmTexts ==
    {LlmText(kind, FALSE, Absent, Absent) :
        kind \in {"none", "empty", "prose", "array", "scalar"}}
    \cup {LlmText("object", fenced, gen, acad) :
              fenced \in BOOLEAN, gen \in KeywordValues, acad \in KeywordValues}

\* generate_keywords(subject, english_rounds, academic_rounds) is called.
InitKeywords ==
    /\ NoSearch
    /\ \E subj \in Subjects, er \in 0..MaxRounds, ar \in 0..MaxRounds :
          keywords = [NoKeywords EXCEPT !.pc = "call", !.subject = subj,
                                        !.english_rounds = er,
                                        !.academic_rounds = ar]
    /\ OthersOff("keywords")

\* The window has been built, gui.py lines 48-49: nothing runs and the
\* stop signal is clear.
InitRun ==
    /\ NoSearch
    /\ run = [NoRun EXCEPT !.pc = "idle"]
    /\ OthersOff("run")

Init ==
    \/ InitBatch
    \/ InitRetry
    \/ InitContend
    \/ InitFetch
    \/ InitRelevance
    \/ InitPaper
    \/ InitQuality
    \/ InitDedup
    \/ InitCompress
    \/ InitFilter
    \/ InitWeb
    \/ InitScholar
    \/ InitKeywords
    \/ InitRun

\* The runs in which every response may fail.
InitFair == InitRetry \/ InitContend

\* ---------------------------------------------------------------- actions

Raised(tasks) == \E q \in DOMAIN tasks : tasks[q].pc = "raised"
AllDone(tasks) == \A q \in DOMAIN tasks : tasks[q].pc = "done"

Schedule(tasks) == [q \in DOMAIN tasks |-> [tasks[q] EXCEPT !.pc = "acquire"]]

\* search_all, lines 258-276: both semaphores are created, every coroutine
\* is created, and gather schedules the brave_search coroutines only.
search_all_start ==
    /\ phase = "start"
    /\ semaphore' = WebGateSlots(CONCURRENCY)
    /\ semantic_semaphore' = SemanticGateSlots
    /\ brave' = Schedule(brave)
    /\ phase' = "gather_brave"
    /\ UNCHANGED units
    /\ UNCHANGED <<general, academic, subject, CONCURRENCY, semantic, faults,
                   all_snippets>>

\* search_all, lines 276-277: the first gather has every result (or
\* propagates the exception of a task), then gather schedules the
\* semantic_search coroutines.
search_all_gather_semantic ==
    /\ phase = "gather_brave"
    /\ AllDone(brave) \/ Raised(brave)
    /\ IF Raised(brave)
       THEN phase' = "raised" /\ UNCHANGED semantic
       ELSE phase' = "gather_semantic" /\ semantic' = Schedule(semantic)
    /\ UNCHANGED units
    /\ UNCHANGED <<general, academic, subject, CONCURRENCY, semaphore,
                   semantic_semaphore, brave, faults, all_snippets>>

\* search_all, lines 277-284
search_all_return ==
    /\ phase = "gather_semantic"
    /\ AllDone(semantic) \/ Raised(semantic)
    /\ IF Raised(semantic)
       THEN phase' = "raised" /\ UNCHANGED all_snippets
       ELSE phase' = "returned" /\ all_snippets' = Collect(brave, semantic)
    /\ UNCHANGED units
    /\ UNCHANGED <<general, academic, subject, CONCURRENCY, semaphore,
                   semantic_semaphore, brave, semantic, faults>>

\* The statuses of a response; "exception" is a connection error or a body
\* that resp.json() cannot decode.
Statuses == {"200", "429", "500", "exception"}

\* What the retry loop of either fetcher does with one response
\* (brave_search lines 65-92, semantic_search lines 155-182).  The gate is
\* released when control leaves the `async with semaphore` block: at once,
\* except for a 429 that is retried, which sleeps inside the block.
AfterResponse(task, status, d, backoff, max_retries) ==
    LET t == [task EXCEPT !.hist = Append(@, status)]
        Return(result) == [t EXCEPT !.pc = "done", !.result = result]
    IN  CASE status = "429" ->
               IF RetryAfter429(t.attempt, max_retries)
               THEN [t EXCEPT !.pc = "backoff",
                              !.wait = WaitTime(backoff, t.attempt),
                              !.slept = @ + WaitTime(backoff, t.attempt)]
               ELSE Return(<<>>)
          [] status = "500" ->
               IF OnHttpError(t.attempt, max_retries) = "return_empty"
               THEN Return(<<>>)
               ELSE [t EXCEPT !.pc = "error_sleep", !.wait = sleep_after_error]
          [] status = "200" ->
               IF d.falsy THEN [Return(<<>>) EXCEPT !.data = d]
               ELSE [t EXCEPT !.pc = "process", !.data = d]
          [] status = "exception" ->
               CASE OnException(t.attempt, max_retries) = "return_empty" -> Return(<<>>)
                 [] OnException(t.attempt, max_retries) = "sleep" ->
                        [t EXCEPT !.pc = "error_sleep", !.wait = sleep_after_error]
                 [] OTHER -> [t EXCEPT !.pc = "raised"]

\* A sleep of the retry loop ends: the loop goes round with the next
\* attempt, or is exhausted and `if not data` returns the empty list.
NextAttempt(task, max_retries) ==
    IF InRange(task.attempt + 1, max_retries)
    THEN [task EXCEPT !.pc = "acquire", !.attempt = @ + 1]
    ELSE [task EXCEPT !.pc = "done", !.result = <<>>]

\* `async with semaphore` left: the slot is free again unless the task
\* sleeps inside the block.
Released(sem, task) == IF task.pc = "backoff" THEN sem ELSE sem + 1

\* brave_search, lines 67-68: enter the gate and issue the API call.
brave_acquire(q) ==
    /\ phase \in {"gather_brave", "gather_semantic", "raised"}
    /\ brave[q].pc = "acquire"
    /\ CanAcquire(semaphore)
    /\ semaphore' = semaphore - 1
    /\ brave' = [brave EXCEPT ![q].pc = "call", ![q].calls = @ + 1]
    /\ UNCHANGED units
    /\ UNCHANGED <<general, academic, subject, CONCURRENCY, phase,
                   semantic_semaphore, semantic, faults, all_snippets>>

\* brave_search, lines 68-89: the response of the API call arrives.
brave_response(q) ==
    /\ brave[q].pc = "call"
    /\ \E status \in Statuses, d \in BraveData(q) :
          /\ status # "200" => (faults > 0 /\ d = Null)
          /\ faults' = IF status = "200" THEN faults ELSE faults - 1
          /\ brave' = [brave EXCEPT
                ![q] = AfterResponse(@, status, d, brave_backoff, brave_max_retries)]
          /\ semaphore' = Released(semaphore, brave'[q])
    /\ UNCHANGED units
    /\ UNCHANGED <<general, academic, subject, CONCURRENCY, phase,
                   semantic_semaphore, semantic, all_snippets>>

\* brave_search, lines 73-74: the backoff sleep ends, `continue` leaves the
\* gate and the next attempt begins.
brave_backoff_end(q) ==
    /\ brave[q].pc = "backoff"
    /\ semaphore' = semaphore + 1
    /\ brave' = [brave EXCEPT ![q] = NextAttempt(@, brave_max_retries)]
    /\ UNCHANGED units
    /\ UNCHANGED <<general, academic, subject, CONCURRENCY, phase,
                   semantic_semaphore, semantic, faults, all_snippets>>

\* brave_search, line 89: the one-second sleep after an exception ends.
brave_error_sleep_end(q) ==
    /\ brave[q].pc = "error_sleep"
    /\ brave' = [brave EXCEPT ![q] = NextAttempt(@, brave_max_retries)]
    /\ UNCHANGED units
    /\ UNCHANGED <<general, academic, subject, CONCURRENCY, phase, semaphore,
                   semantic_semaphore, semantic, faults, all_snippets>>

\* brave_search, lines 94-121: pages fetched, Snippets built and returned.
brave_process(q) ==
    /\ brave[q].pc = "process"
    /\ brave' = [brave EXCEPT ![q].pc = "done",
                              ![q].result = BraveSnippets(brave[q].data.results)]
    /\ UNCHANGED units
    /\ UNCHANGED <<general, academic, subject, CONCURRENCY, phase, semaphore,
                   semantic_semaphore, semantic, faults, all_snippets>>

\* semantic_search, lines 157-159
semantic_acquire(q) ==
    /\ phase \in {"gather_semantic", "raised"}
    /\ semantic[q].pc = "acquire"
    /\ CanAcquire(semantic_semaphore)
    /\ semantic_semaphore' = semantic_semaphore - 1
    /\ semantic' = [semantic EXCEPT ![q].pc = "call", ![q].calls = @ + 1]
    /\ UNCHANGED units
    /\ UNCHANGED <<general, academic, subject, CONCURRENCY, phase, semaphore,
                   brave, faults, all_snippets>>

\* semantic_search, lines 159-179
semantic_response(q) ==
    /\ semantic[q].pc = "call"
    /\ \E status \in Statuses, d \in SemanticData(q) :
          /\ status # "200" => (faults > 0 /\ d = Null)
          /\ faults' = IF status = "200" THEN faults ELSE faults - 1
          /\ semantic' = [semantic EXCEPT
                ![q] = AfterResponse(@, status, d, semantic_backoff, semantic_max_retries)]
          /\ semantic_semaphore' = Released(semantic_semaphore, semantic'[q])
    /\ UNCHANGED units
    /\ UNCHANGED <<general, academic, subject, CONCURRENCY, phase, semaphore,
                   brave, all_snippets>>

\* semantic_search, lines 164-165
semantic_backoff_end(q) ==
    /\ semantic[q].pc = "backoff"
    /\ semantic_semaphore' = semantic_semaphore + 1
    /\ semantic' = [semantic EXCEPT ![q] = NextAttempt(@, semantic_max_retries)]
    /\ UNCHANGED units
    /\ UNCHANGED <<general, academic, subject, CONCURRENCY, phase, semaphore,
                   brave, faults, all_snippets>>

\* semantic_search, line 179
semantic_error_sleep_end(q) ==
    /\ semantic[q].pc = "error_sleep"
    /\ semantic' = [semantic EXCEPT ![q] = NextAttempt(@, semantic_max_retries)]
    /\ UNCHANGED units
    /\ UNCHANGED <<general, academic, subject, CONCURRENCY, phase, semaphore,
                   semantic_semaphore, brave, faults, all_snippets>>

\* semantic_search, lines 184-254
semantic_process(q) ==
    /\ semantic[q].pc = "process"
    /\ semantic' = [semantic EXCEPT ![q].pc = "done",
                        ![q].result = SemanticSnippets(semantic[q].data.results, subject)]
    /\ UNCHANGED units
    /\ UNCHANGED <<general, academic, subject, CONCURRENCY, phase, semaphore,
                   semantic_semaphore, brave, faults, all_snippets>>

\* The documents a 200 response to a page fetch can carry: the content
\* type, whether the decoder can read the bytes, and the text in them.
FetchDocs ==
    [content_type : {"application/pdf", "docx", "text/html"},
     readable : BOOLEAN,
     text : {Empty, Text("page text", 600)}]

\* pdf_to_text and docx_to_text return "" on a decoder exception;
\* anything else is decoded as text, errors ignored (lines 36-42).
Decoded(doc) ==
    IF doc.content_type \in {"application/pdf", "docx"} /\ ~doc.readable
    THEN Empty
    ELSE doc.text

\* brave_search lines 106-116 for one search result and its content
ResultSnippets(content) ==
    BraveSnippets(<<[object |-> TRUE, has_title |-> TRUE,
                     title |-> "result title", url |-> "http://result",
                     description |-> "result description",
                     page |-> content]>>)

FetchReturn(f, text) ==
    [f EXCEPT !.pc = "done", !.result = text, !.snippets = ResultSnippets(text)]

\* fetch_text, line 29: the GET request of this attempt is issued.
fetch_text_get ==
    /\ fetch.pc = "get"
    /\ fetch' = [fetch EXCEPT !.pc = "wait", !.calls = @ + 1]
    /\ UNCHANGED exceptFetch

\* fetch_text, lines 29-46: the response arrives or the request fails;
\* "exception" is a timeout or a connection error.
fetch_text_response ==
    /\ fetch.pc = "wait"
    /\ \E status \in {"200", "404", "500", "exception"}, doc \in FetchDocs :
          LET f == [fetch EXCEPT !.hist = Append(@, status)]
          IN  fetch' =
                CASE status = "200" -> FetchReturn(f, Decoded(doc))
                  [] status = "exception" ->
                        [f EXCEPT !.pc = "sleep", !.slept = @ + sleep_after_error]
                  [] OTHER ->
                        IF OnHttpError(f.attempt, fetch_max_retries) = "return_empty"
                        THEN FetchReturn(f, Empty)
                        ELSE [f EXCEPT !.pc = "sleep", !.slept = @ + sleep_after_error]
    /\ UNCHANGED exceptFetch

\* fetch_text, lines 46-48: the pause ends; the loop goes round, or is
\* exhausted and the empty string is returned.
fetch_text_sleep_end ==
    /\ fetch.pc = "sleep"
    /\ fetch' = IF InRange(fetch.attempt + 1, fetch_max_retries)
                THEN [fetch EXCEPT !.pc = "get", !.attempt = @ + 1]
                ELSE FetchReturn(fetch, Empty)
    /\ UNCHANGED exceptFetch

NextSearch ==
    \/ search_all_start
    \/ search_all_gather_semantic
    \/ search_all_return
    \/ \E q \in 1..general : brave_acquire(q)
    \/ \E q \in 1..general : brave_response(q)
    \/ \E q \in 1..general : brave_backoff_end(q)
    \/ \E q \in 1..general : brave_error_sleep_end(q)
    \/ \E q \in 1..general : brave_process(q)
    \/ \E q \in 1..academic : semantic_acquire(q)
    \/ \E q \in 1..academic : semantic_response(q)
    \/ \E q \in 1..academic : semantic_backoff_end(q)
    \/ \E q \in 1..academic : semantic_error_sleep_end(q)
    \/ \E q \in 1..academic : semantic_process(q)

\* What response.text can be: a short sequence of characters, or None.
Responses ==
    UNION {[1..n -> {"Y", "y", "E", "e", "S", "s", "n"}] :
              n \in 0..MaxResponseLen}
        \cup {NoneResponse}

\* check_relevance, lines 125-126 and 128-138: the guard on the abstract,
\* then the prompt is handed to gemini_complete.
check_relevance_call ==
    /\ relevance.pc = "call"
    /\ relevance' = IF AbstractMissing(relevance.abstract)
                    THEN [relevance EXCEPT !.pc = "done", !.result = FALSE]
                    ELSE [relevance EXCEPT !.pc = "generate"]
    /\ UNCHANGED exceptRelevance

\* gemini_complete, lines 128-150: one generate_content call.  A reply is
\* returned to check_relevance, line 139, which raises on None; a 503 or
\* 429 with retries left starts a backoff; any other failure returns "".
\* An exception is told by the code in its message.
gemini_complete_generate ==
    /\ relevance.pc = "generate"
    /\ LET r == [relevance EXCEPT !.llm_calls = @ + 1]
           Return(response, errored) ==
               LET out == check_relevance(r.abstract, response)
               IN  [r EXCEPT !.pc = IF out.raised THEN "raised" ELSE "done",
                             !.response = response, !.errored = errored,
                             !.result = out.value]
       IN  \/ \E response \in Responses : relevance' = Return(response, FALSE)
           \/ \E error \in {"503", "429", "400"} :
                 relevance' =
                     IF error \in {"503", "429"}
                            /\ RetryAfter429(r.attempt, gemini_max_retries)
                     THEN [r EXCEPT !.pc = "backoff",
                                    !.slept = @ + WaitTime(gemini_backoff, r.attempt)]
                     ELSE Return(<<>>, TRUE)
    /\ UNCHANGED exceptRelevance

\* gemini_complete, lines 145-146: the backoff ends, `continue`.
gemini_complete_backoff_end ==
    /\ relevance.pc = "backoff"
    /\ relevance' = [relevance EXCEPT !.pc = "generate", !.attempt = @ + 1]
    /\ UNCHANGED exceptRelevance

\* What gemini_complete returns to process_paper, and the texts a full-text
\* fetch yields.
PaperOracles ==
    [response : {<<>>, <<"y", "e", "s">>, <<"n">>, NoneResponse},
     fetched : {Empty, Text("full text", 150), Text("full text", 600)}]

\* process_paper, lines 184-242, for one paper.
process_paper_call ==
    /\ paper.pc = "call"
    /\ \E o \in PaperOracles :
          paper' = [paper EXCEPT
                       !.pc = "done", !.response = o.response,
                       !.fetched = o.fetched,
                       !.out = process_paper(paper.p, paper.subject,
                                             o.response, o.fetched)]
    /\ UNCHANGED <<searchVars, fetch, relevance, quality, dedup, compress,
                   filter, web, scholar, keywords, run>>

\* is_quality_page, lines 72-89
is_quality_page_call ==
    /\ quality.pc = "call"
    /\ quality' = [quality EXCEPT
                      !.pc = "done",
                      !.result = is_quality_page(quality.text, quality.source_type)]
    /\ UNCHANGED <<searchVars, fetch, relevance, paper, dedup, compress,
                   filter, web, scholar, keywords, run>>

\* semantic_dedup(texts, max_keep), and the texts it selects
semantic_dedup_call ==
    /\ dedup.pc = "call"
    /\ LET keep == semantic_dedup(dedup.texts, dedup.max_keep)
       IN  dedup' = [dedup EXCEPT !.pc = "selected", !.keep = keep,
                                  !.selected = SelectTexts(dedup.texts, keep)]
    /\ UNCHANGED exceptDedup

\* semantic_dedup(selected, n) on the selection, with n >= len(selected)
semantic_dedup_again ==
    /\ dedup.pc = "selected"
    /\ \E n \in Len(dedup.selected)..(MaxTexts + 1) :
          dedup' = [dedup EXCEPT !.pc = "done", !.again_max_keep = n,
                                 !.again = semantic_dedup(dedup.selected, n)]
    /\ UNCHANGED exceptDedup

\* semantic_dedup(texts, max_keep) called once more, on the same texts
\* or on a list that differs from them in one text
semantic_dedup_repeat ==
    /\ dedup.pc = "selected"
    /\ \E k \in 0..Len(dedup.texts), text \in DedupTexts :
          LET texts == IF k = 0 THEN dedup.texts
                       ELSE [dedup.texts EXCEPT ![k] = text]
          IN  dedup' = [dedup EXCEPT
                           !.pc = "repeated", !.repeat_texts = texts,
                           !.repeat = semantic_dedup(texts, dedup.max_keep)]
    /\ UNCHANGED exceptDedup

\* compress_text, lines 49-70
compress_text_call ==
    /\ compress.pc = "call"
    /\ compress' = [compress EXCEPT
                       !.pc = "done",
                       !.result = compress_text(compress.html, compress.max_tokens)]
    /\ UNCHANGED <<searchVars, fetch, relevance, paper, quality,
                   dedup, filter, web, scholar, keywords, run>>

\* filter_snippets, lines 97-130
filter_snippets_call ==
    /\ filter.pc = "call"
    /\ filter' = [filter EXCEPT !.pc = "done",
                                !.result = filter_snippets(filter.snippets)]
    /\ UNCHANGED <<searchVars, fetch, relevance, paper, quality, dedup,
                   compress, web, scholar, keywords, run>>

\* brave_search, lines 94-121, on the results of one response
brave_search_results ==
    /\ web.pc = "call"
    /\ web' = [web EXCEPT !.pc = "done", !.snippets = BraveSnippets(web.results)]
    /\ UNCHANGED <<searchVars, fetch, relevance, paper, quality, dedup,
                   compress, filter, scholar, keywords, run>>

\* semantic_search, lines 244-254, on the papers of one response
semantic_search_papers ==
    /\ scholar.pc = "call"
    /\ scholar' = [scholar EXCEPT
                      !.pc = "done",
                      !.snippets = SemanticSnippets(scholar.papers, scholar.subject)]
    /\ UNCHANGED <<searchVars, fetch, relevance, paper, quality,
                   dedup, compress, filter, web, keywords, run>>

\* generate_keywords, lines 40-95, with the text of gemini_complete
generate_keywords_call ==
    /\ keywords.pc = "call"
    /\ \E errored \in BOOLEAN, response_text \in LlmTexts :
          LET text == core_gemini_complete(errored, response_text)
          IN  keywords' = [keywords EXCEPT
                              !.pc = "done", !.text = text,
                              !.out = generate_keywords(keywords.subject,
                                                        keywords.english_rounds,
                                                        keywords.academic_rounds,
                                                        text)]
    /\ UNCHANGED <<searchVars, fetch, relevance, paper, quality,
                   dedup, compress, filter, web, scholar, run>>

\* start_research, gui.py lines 108-130, on the thread of the window,
\* with the Start button enabled: at first, or after reset_ui, line 220,
\* which cleanup has scheduled.  Without a subject nothing changes;
\* otherwise the stop signal is cleared and a new thread runs
\* research_task, of which started and after_stop keep the stages.
start_research ==
    /\ run.pc \in {"idle", "returned", "complete", "failed"}
    /\ ~run.is_running
    /\ ~run.stopping
    /\ \E subject_entered \in BOOLEAN :
          run' = IF ~subject_entered THEN run
                 ELSE [run EXCEPT !.pc = "begin", !.is_running = TRUE,
                                  !.stop_event = FALSE, !.started = <<>>,
                                  !.after_stop = {}]
    /\ UNCHANGED exceptRun

\* stop_research, gui.py line 133, on the thread of the window: the read
\* of is_running, which finds it true
stop_research ==
    /\ run.pc # "off"
    /\ ~run.stopping
    /\ run.is_running
    /\ run' = [run EXCEPT !.stopping = TRUE]
    /\ UNCHANGED exceptRun

\* stop_research, line 134: stop_event.set(), whatever the thread of
\* research_task has done since the read of line 133
stop_research_set ==
    /\ run.stopping
    /\ run' = [run EXCEPT !.stopping = FALSE, !.stop_event = TRUE]
    /\ UNCHANGED exceptRun

\* cleanup, gui.py lines 198-200, in the finally of run_async_research:
\* research_task has returned or raised
cleanup ==
    /\ run.pc \in {"returned", "complete", "failed"}
    /\ run.is_running
    /\ run' = [run EXCEPT !.is_running = FALSE]
    /\ UNCHANGED exceptRun

\* research_task at a check of the stop signal, lines 150, 157, 168, 179:
\* it returns when the signal is set, and goes on to log and call the
\* stage otherwise.
Proceed(stage) ==
    IF run.stop_event
    THEN [run EXCEPT !.pc = "returned"]
    ELSE [run EXCEPT !.passed = stage]

\* research_task calls a stage, whatever the stop signal is by now
Started(stage) ==
    [run EXCEPT
        !.pc = stage, !.passed = "", !.started = Append(@, stage),
        !.after_stop = IF run.stop_event THEN @ \cup {stage} ELSE @]

\* research_task, lines 146-150: the first check
research_task_begin ==
    /\ run.pc = "begin"
    /\ run.passed = ""
    /\ run' = Proceed("keywords")
    /\ UNCHANGED exceptRun

\* lines 153-154, 160-161, 171-172, 182: after a check that passed, the
\* stage is announced and called
research_task_call ==
    /\ run.passed # ""
    /\ run' = Started(run.passed)
    /\ UNCHANGED exceptRun

\* lines 154-157: generate_keywords has returned
research_task_keywords_done ==
    /\ run.pc = "keywords"
    /\ run.passed = ""
    /\ run' = Proceed("search")
    /\ UNCHANGED exceptRun

\* lines 161-168: search_all has returned, with or without snippets
research_task_search_done ==
    /\ run.pc = "search"
    /\ run.passed = ""
    /\ \E found \in BOOLEAN :
          run' = IF ~found THEN [run EXCEPT !.pc = "returned"]
                 ELSE Proceed("filter")
    /\ UNCHANGED exceptRun

\* lines 172-179: filter_snippets has returned, with or without snippets
research_task_filter_done ==
    /\ run.pc = "filter"
    /\ run.passed = ""
    /\ \E kept \in BOOLEAN :
          run' = IF ~kept THEN [run EXCEPT !.pc = "returned"]
                 ELSE Proceed("bibliometrics")
    /\ UNCHANGED exceptRun

\* lines 182-186: save_bibliometrics has returned and synthesise is
\* called, with no check of the stop signal in between
research_task_bibliometrics_done ==
    /\ run.pc = "bibliometrics"
    /\ run.passed = ""
    /\ run' = Started("synthesis")
    /\ UNCHANGED exceptRun

\* lines 186-196: synthesise has returned and the report is saved
research_task_synthesis_done ==
    /\ run.pc = "synthesis"
    /\ run' = [run EXCEPT !.pc = "complete"]
    /\ UNCHANGED exceptRun

\* run_async_research, lines 137-143: research_task raised, in a stage or
\* in a statement between two stages
research_failed ==
    /\ run.pc \in {"begin", "keywords", "search", "filter", "bibliometrics",
                   "synthesis"}
    /\ run' = [run EXCEPT !.pc = "failed", !.passed = ""]
    /\ UNCHANGED exceptRun

Next ==
    \/ NextSearch
    \/ fetch_text_get
    \/ fetch_text_response
    \/ fetch_text_sleep_end
    \/ check_relevance_call
    \/ gemini_complete_generate
    \/ gemini_complete_backoff_end
    \/ process_paper_call
    \/ is_quality_page_call
    \/ semantic_dedup_call
    \/ semantic_dedup_again
    \/ semantic_dedup_repeat
    \/ compress_text_call
    \/ filter_snippets_call
    \/ brave_search_results
    \/ semantic_search_papers
    \/ generate_keywords_call
    \/ start_research
    \/ stop_research
    \/ stop_research_set
    \/ cleanup
    \/ research_task_begin
    \/ research_task_call
    \/ research_task_keywords_done
    \/ research_task_search_done
    \/ research_task_filter_done
    \/ research_task_bibliometrics_done
    \/ research_task_synthesis_done
    \/ research_failed

Spec == Init /\ [][Next]_vars

\* Every network call completes, every sleep ends and the event loop runs
\* every ready task.
FairSpec == InitFair /\ [][NextSearch]_vars /\ WF_vars(NextSearch)

\* ----------------------------------------------------------------- claims

InsideWebGate == {q \in 1..general : brave[q].pc \in {"call", "backoff"}}
InsideSemanticGate == {q \in 1..academic : semantic[q].pc \in {"call", "backoff"}}
WebCalls == {q \in 1..general : brave[q].pc = "call"}
SemanticCalls == {q \in 1..academic : semantic[q].pc = "call"}

All429(hist) == \A j \in 1..Len(hist) : hist[j] = "429"
\* k times 429, then 200
RateLimitedThenOk(hist, k) ==
    /\ Len(hist) = k + 1
    /\ \A j \in 1..k : hist[j] = "429"
    /\ hist[k + 1] = "200"
Failed(task) ==
    /\ task.pc = "done"
    /\ task.hist # <<>>
    /\ task.hist[Len(task.hist)] # "200" \/ task.data.falsy

\* C1: at every moment the number of general queries inside the web gate
\* (API call in flight) is at most CONCURRENCY.
C1_WebGateBound == Cardinality(InsideWebGate) <= CONCURRENCY

\* The web gate is full, one query in it is a retry, and another query waits.
C1_Witness ==
    /\ CONCURRENCY = 2
    /\ Cardinality(InsideWebGate) = CONCURRENCY
    /\ \E q \in InsideWebGate : brave[q].attempt > 0
    /\ \E q \in 1..general : brave[q].pc = "acquire"

\* C2: at every moment at most one academic query is inside the academic
\* gate, so at most one academic-API call is in flight.
C2_SemanticGateBound == Cardinality(InsideSemanticGate) <= 1

\* An academic retry is in flight while another academic query waits.
C2_Witness ==
    /\ \E q \in SemanticCalls : semantic[q].attempt > 0
    /\ \E q \in 1..academic : semantic[q].pc = "acquire"

\* C3: search_all runs the tasks of both kinds concurrently: while a web
\* query of a started run is unfinished, every academic task has been
\* started too.
C3_Claim ==
    (phase # "start" /\ \E w \in 1..general : brave[w].pc # "done")
        => \A a \in 1..academic : semantic[a].pc # "created"

\* C4: a gate is held only while the API call it guards is in flight: the
\* free slots of each gate are its capacity less the calls in flight, a
\* query in a backoff pause holding none.
C4_Claim ==
    phase \notin {"off", "start"} =>
        /\ semaphore = CONCURRENCY - Cardinality(WebCalls)
        /\ semantic_semaphore = 1 - Cardinality(SemanticCalls)

\* C5: search_all returns only after every task of both kinds has completed;
\* a failed query contributes the empty list and every Record of every
\* query is in the output.
C5_AllTasksAllRecords ==
    phase = "returned" =>
        /\ AllDone(brave) /\ AllDone(semantic)
        /\ \A q \in 1..general : Failed(brave[q]) => brave[q].result = <<>>
        /\ \A q \in 1..academic : Failed(semantic[q]) => semantic[q].result = <<>>
        /\ \A q \in 1..general : \A k \in 1..Len(brave[q].result) :
              \E j \in 1..Len(all_snippets) : all_snippets[j] = brave[q].result[k]
        /\ \A q \in 1..academic : \A k \in 1..Len(semantic[q].result) :
              \E j \in 1..Len(all_snippets) : all_snippets[j] = semantic[q].result[k]

\* A run has returned in which a web query failed while another web query
\* and an academic query produced Records.
C5_Witness ==
    /\ phase = "returned"
    /\ \E q \in 1..general : Failed(brave[q]) /\ brave[q].hist = <<"500">>
    /\ \E q \in 1..general : brave[q].result # <<>>
    /\ \E q \in 1..academic : semantic[q].result # <<>>
    /\ Len(all_snippets) >= 2

\* C6: when every network call completes or fails, search_all eventually
\* returns its list and never raises to its caller.
C6_ReturnsNeverRaises == <>(phase = "returned") /\ [](phase # "raised")

\* A run has returned the empty list after both its queries exhausted
\* their retries.
C6_Witness ==
    /\ phase = "returned"
    /\ all_snippets = <<>>
    /\ general = 1 /\ academic = 1
    /\ brave[1].calls = brave_max_retries + 1 /\ Failed(brave[1])
    /\ semantic[1].calls = semantic_max_retries + 1 /\ Failed(semantic[1])

\* C7: after a 429 the web fetcher sleeps 1 * 2^attempt seconds, attempt
\* counted from 0; a query makes at most 4 API calls whatever the mix of
\* 429s and connection errors, and with the budget exhausted it returns the
\* empty list without raising.
C7_BraveRetry ==
    \A q \in 1..general :
        /\ brave[q].pc = "backoff" => brave[q].wait = 1 * 2 ^ brave[q].attempt
        /\ brave[q].calls <= 4
        /\ brave[q].pc # "raised"
        /\ (Len(brave[q].hist) = 4 /\ brave[q].hist[4] # "200") =>
              (brave[q].pc = "done" /\ brave[q].result = <<>>)

\* A web query sleeps 4 seconds after its third attempt, having met both a
\* connection error and 429s.
C7_Witness ==
    \E q \in 1..general :
        /\ brave[q].pc = "backoff"
        /\ brave[q].hist = <<"429", "exception", "429">>
        /\ brave[q].wait = 4

\* C8 as stated: a web query answered 429 three times and then 200 succeeds
\* after exactly 3 API calls with a cumulative backoff of 1 + 2 seconds.
C8_Claim ==
    \A q \in 1..general :
        (brave[q].pc = "done" /\ RateLimitedThenOk(brave[q].hist, 3)) =>
            (brave[q].calls = 3 /\ brave[q].slept = 1 + 2)

\* C8 amended: a web query answered 429 three times and then 200 succeeds
\* after exactly 4 API calls with a cumulative backoff of 1 + 2 + 4 seconds.
C8_FourCalls ==
    \A q \in 1..general :
        (brave[q].pc = "done" /\ RateLimitedThenOk(brave[q].hist, 3)) =>
            /\ brave[q].calls = 4
            /\ brave[q].slept = 1 + 2 + 4
            /\ brave[q].data.falsy \/ brave[q].result = BraveSnippets(brave[q].data.results)

\* A web query has returned a Record after three 429s and a 200.
C8_Witness ==
    \E q \in 1..general :
        /\ brave[q].pc = "done"
        /\ RateLimitedThenOk(brave[q].hist, 3)
        /\ brave[q].result # <<>>

\* C9 as stated: an academic query whose every response is 429 makes no
\* more than 5 API calls.
C9_Claim ==
    \A q \in 1..academic : All429(semantic[q].hist) => semantic[q].calls <= 5

\* C9 amended: on 429 the academic fetcher sleeps 2 * 2^attempt seconds and
\* retries, giving up after 5 retries: a query whose every response is 429
\* makes no more than 6 API calls and then returns the empty list.
C9_SixCalls ==
    \A q \in 1..academic :
        /\ semantic[q].pc = "backoff" => semantic[q].wait = 2 * 2 ^ semantic[q].attempt
        /\ All429(semantic[q].hist) =>
              /\ semantic[q].calls <= 6
              /\ semantic[q].pc = "done" =>
                    (semantic[q].calls = 6 /\ semantic[q].result = <<>>)

\* An academic query has given up after six 429 responses.
C9_Witness ==
    \E q \in 1..academic :
        /\ semantic[q].pc = "done"
        /\ Len(semantic[q].hist) = 6
        /\ All429(semantic[q].hist)
        /\ semantic[q].slept = 2 + 4 + 8 + 16 + 32

\* C10: for every k in 0..5 an academic query whose first k responses are
\* 429 goes on to call k+1, and when that response is 200 it has made
\* exactly k+1 calls and returns the Records built from the 200 response.
C10_RetryThenSuccess ==
    \A q \in 1..academic : \A k \in 0..semantic_max_retries :
        /\ (Len(semantic[q].hist) = k /\ All429(semantic[q].hist)) =>
              /\ semantic[q].pc \in {"created", "acquire", "call", "backoff"}
              /\ semantic[q].calls \in {k, k + 1}
        /\ (semantic[q].pc = "done" /\ RateLimitedThenOk(semantic[q].hist, k)) =>
              /\ semantic[q].calls = k + 1
              /\ ~semantic[q].data.falsy =>
                    /\ semantic[q].result = SemanticSnippets(semantic[q].data.results, subject)
                    /\ \A j \in 1..Len(semantic[q].data.results) :
                          semantic[q].data.results[j].citationCount = 10 =>
                             \E i \in 1..Len(semantic[q].result) :
                                semantic[q].result[i].title = semantic[q].data.results[j].title

\* Two 429s and a 200: three calls made and the paper returned; and the
\* last attempt of the budget can succeed too.
C10_Witness ==
    \E q \in 1..academic :
        /\ semantic[q].pc = "done"
        /\ RateLimitedThenOk(semantic[q].hist, 2)
        /\ semantic[q].calls = 3
        /\ Len(semantic[q].result) = 1

HttpErrors == {"404", "500"}
\* the response h[j] was the last one and ended the unit of work
EndsUnit(pc, hist, calls, j) == j = Len(hist) /\ pc = "done" /\ calls = j

\* C11 as stated: an HTTP error response (non-200, non-429) is retried
\* within the retry budget: while attempts are left, the unit of work has
\* not ended after such a response.
C11_Claim ==
    /\ \A q \in 1..general :
          (brave[q].hist # <<>> /\ brave[q].hist[Len(brave[q].hist)] \in HttpErrors
              /\ Len(brave[q].hist) <= brave_max_retries) => brave[q].pc # "done"
    /\ \A q \in 1..academic :
          (semantic[q].hist # <<>> /\ semantic[q].hist[Len(semantic[q].hist)] \in HttpErrors
              /\ Len(semantic[q].hist) <= semantic_max_retries) => semantic[q].pc # "done"
    /\ (fetch.hist # <<>> /\ fetch.hist[Len(fetch.hist)] \in HttpErrors
              /\ Len(fetch.hist) <= fetch_max_retries) => fetch.pc # "done"

\* C11 amended: an HTTP error response (non-200, non-429) from the
\* web-search API, the academic API or a page fetch is not retried: it is
\* the last response of the unit of work, which yields empty output at
\* once whatever is left of the retry budget.
C11_HttpErrorEndsUnit ==
    /\ \A q \in 1..general : \A j \in 1..Len(brave[q].hist) :
          brave[q].hist[j] \in HttpErrors =>
              (EndsUnit(brave[q].pc, brave[q].hist, brave[q].calls, j)
                  /\ brave[q].result = <<>>)
    /\ \A q \in 1..academic : \A j \in 1..Len(semantic[q].hist) :
          semantic[q].hist[j] \in HttpErrors =>
              (EndsUnit(semantic[q].pc, semantic[q].hist, semantic[q].calls, j)
                  /\ semantic[q].result = <<>>)
    /\ \A j \in 1..Len(fetch.hist) :
          fetch.hist[j] \in HttpErrors =>
              (EndsUnit(fetch.pc, fetch.hist, fetch.calls, j)
                  /\ fetch.result = Empty /\ fetch.snippets = <<>>)

\* Both fetchers of a run ended on a 500 with most of their budget left.
C11_Witness ==
    /\ general = 1 /\ academic = 1
    /\ brave[1].pc = "done" /\ brave[1].hist = <<"exception", "500">>
    /\ semantic[1].pc = "done" /\ semantic[1].hist = <<"500">>
    /\ semantic[1].calls = 1

C13_CitationGate ==
    paper.pc = "done" =>
        LET count == IF paper.p.has_citationCount THEN paper.p.citationCount ELSE 0
        IN  /\ paper.out.rejected_by = "citation" <=> count < MIN_CITATION_COUNT
            /\ count < MIN_CITATION_COUNT =>
                  (paper.out.snippet = NoRecord /\ paper.out.llm_calls = 0)

\* A paper without citationCount, with an abstract the LLM would call
\* relevant, has been rejected by the Citation Gate.
C13_Witness ==
    /\ paper.pc = "done"
    /\ ~paper.p.has_citationCount
    /\ paper.subject = "topic"
    /\ Truthy(paper.p.abstract)
    /\ paper.response = <<"y", "e", "s">>
    /\ paper.out.rejected_by = "citation"
    /\ paper.out.snippet = NoRecord

\* C14: check_relevance called with an empty or absent abstract returns
\* false and makes no call to the LLM, for every subject and title.
C14_NoAbstractNoCall ==
    (relevance.pc # "off" /\ relevance.abstract \in {None, Empty}) =>
        /\ relevance.llm_calls = 0
        /\ relevance.pc \in {"call", "done"}
        /\ ~relevance.result

\* check_relevance has returned for an empty abstract.
C14_Witness ==
    /\ relevance.pc = "done"
    /\ relevance.abstract = Empty
    /\ relevance.subject = "topic"
    /\ relevance.title = "a title"
    /\ ~relevance.result
    /\ relevance.llm_calls = 0

\* the letters y, e, s in a row, each in either case
CaseInsensitiveYes(response) ==
    \E k \in 1..(Len(response) - 2) :
        /\ response[k] \in {"Y", "y"}
        /\ response[k + 1] \in {"E", "e"}
        /\ response[k + 2] \in {"S", "s"}

\* C15 as stated: with a non-empty abstract, check_relevance returns
\* true exactly when the reply of the LLM contains "YES" in any mix of
\* cases; every other reply gives false, as does the empty reply that
\* stands for an error of the LLM.
C15_Claim ==
    (relevance.pc \in {"done", "raised"} /\ Truthy(relevance.abstract)) =>
        /\ relevance.pc = "done"
        /\ relevance.result <=> CaseInsensitiveYes(relevance.response)
        /\ relevance.errored => (relevance.response = <<>> /\ ~relevance.result)
        /\ relevance.llm_calls >= 1

\* C16 as stated: every academic Record that search_all returns comes
\* from a paper that passed the Citation Gate and was judged relevant by
\* the Relevance Gate, for every subject including the empty one; a paper
\* without abstract never produces a Record.
C16_Claim ==
    /\ phase = "returned" =>
          \A k \in 1..Len(all_snippets) :
              all_snippets[k].source_type = "semantic_scholar" =>
                  \E q \in 1..academic :
                      \E j \in 1..Len(semantic[q].data.results) :
                          LET p == semantic[q].data.results[j]
                          IN  /\ p.title = all_snippets[k].title
                              /\ p.citationCount >= MIN_CITATION_COUNT
                              /\ Truthy(p.abstract)
                              /\ CaseInsensitiveYes(p.answer)
    /\ (paper.pc = "done" /\ paper.out.snippet # NoRecord) =>
          /\ Truthy(paper.p.abstract)
          /\ CaseInsensitiveYes(paper.response)
          /\ paper.out.llm_calls = 1

\* C17: the body of an accepted paper is the abstract verbatim when it has
\* at least 200 characters, and then no fetch is made; otherwise, when
\* there is a url (the open-access PDF url before the paper url), the url
\* is fetched and the fetched text is the body if and only if it is
\* non-empty and strictly longer than the abstract; otherwise the body is
\* the abstract, or the placeholder when there is no abstract.  The body is
\* never empty.
C17_BodySelection ==
    (paper.pc = "done" /\ paper.out.snippet # NoRecord) =>
        LET a == paper.p.abstract
            f == paper.fetched
            u == IF paper.p.openAccessPdf.url # "" THEN paper.p.openAccessPdf.url
                 ELSE paper.p.url
            body == paper.out.snippet.body
            fallback == IF a.len > 0 THEN a ELSE Placeholder
        IN  /\ paper.out.snippet.url = u
            /\ a.len >= 200 => (body = a /\ paper.out.fetched_urls = <<>>)
            /\ (a.len < 200 /\ u # "") =>
                  /\ paper.out.fetched_urls = <<u>>
                  /\ body = IF f.len > 0 /\ f.len > a.len THEN f ELSE fallback
            /\ (a.len < 200 /\ u = "") =>
                  (paper.out.fetched_urls = <<>> /\ body = fallback)
            /\ body.len > 0

\* A short abstract, both urls, and a fetched text of the same length: the
\* PDF url was fetched and the abstract kept.
C17_Witness ==
    /\ paper.pc = "done"
    /\ paper.p.abstract = Text("abstract", 150)
    /\ paper.fetched = Text("full text", 150)
    /\ paper.p.openAccessPdf.url = "http://pdf" /\ paper.p.url = "http://paper"
    /\ paper.out.snippet # NoRecord
    /\ paper.out.snippet.body = paper.p.abstract
    /\ paper.out.fetched_urls = <<"http://pdf">>

\* C18: is_quality_page is false for the empty text; for an academic text
\* true exactly when it has at least 100 characters, whatever hype phrases
\* it contains; for a web text true exactly when it has at least 500
\* characters and contains no hype phrase in any case.
C18_IsQualityPage ==
    quality.pc = "done" =>
        quality.result =
            (IF quality.text.len = 0 THEN FALSE
             ELSE IF quality.source_type = "semantic_scholar"
             THEN quality.text.len >= 100
             ELSE /\ quality.text.len >= 500
                  /\ quality.text.occurs \cap {"buy now", "Buy Now", "CLICK HERE"} = {})

\* A long web page with a capitalised hype phrase was turned down.
C18_Witness ==
    /\ quality.pc = "done"
    /\ quality.source_type = "web"
    /\ quality.text = [len |-> 600, occurs |-> {"Buy Now", "results"}]
    /\ ~quality.result

\* C19 as stated: for an input of M texts and max_keep >= 0 with
\* M > max_keep, semantic_dedup returns at most max_keep indices.
C19_Claim ==
    (dedup.pc \in {"selected", "done"} /\ dedup.max_keep >= 0
        /\ Len(dedup.texts) > dedup.max_keep) =>
        Len(dedup.keep) <= dedup.max_keep

\* C20 as stated: deduplication is idempotent: semantic_dedup on the
\* texts a call selected, with max_keep at least their number, keeps
\* every one of them.
C20_Claim ==
    dedup.pc = "done" =>
        dedup.again = [k \in 1..Len(dedup.selected) |-> k - 1]

\* the indices semantic_dedup kept
KeptIndices == {dedup.keep[k] : k \in 1..Len(dedup.keep)}
\* no two of the texts have similarity above 0.85
PairwiseDistinct(texts) ==
    \A a, b \in 1..Len(texts) :
        a < b => Sim(texts, texts[a], texts[b]) <= 7225

\* C21: no two texts kept by semantic_dedup have similarity above 0.85; a
\* text is dropped below the cap only because an earlier kept text has
\* similarity above 0.85 to it, and under a cap of at least 1 the first
\* text survives.
C21_NoSimilarKept ==
    dedup.pc \in {"selected", "done"} =>
        /\ \A a, b \in 1..Len(dedup.keep) :
              a < b =>
                  /\ dedup.keep[a] < dedup.keep[b]
                  /\ Sim(dedup.texts, dedup.texts[dedup.keep[a] + 1],
                         dedup.texts[dedup.keep[b] + 1]) <= 7225
        /\ \A j \in 0..(Len(dedup.texts) - 1) :
              (j \notin KeptIndices /\ Len(dedup.keep) < dedup.max_keep) =>
                  \E i \in KeptIndices :
                      /\ i < j
                      /\ Sim(dedup.texts, dedup.texts[i + 1],
                             dedup.texts[j + 1]) > 7225
        /\ (Len(dedup.texts) > 0 /\ dedup.max_keep >= 1) =>
              (dedup.keep # <<>> /\ dedup.keep[1] = 0)

\* Of a chain of near-duplicates the first is kept, the second dropped and
\* the third, which is like the second and unlike the first, kept.
C21_Witness ==
    /\ dedup.pc = "selected"
    /\ dedup.texts = <<"t1", "t2", "t3">>
    /\ dedup.max_keep = 3
    /\ dedup.keep = <<0, 2>>

\* C22: for M texts no two of which have similarity above 0.85 and
\* 1 <= max_keep <= M, semantic_dedup returns the first max_keep indices.
C22_FirstMaxKeep ==
    (dedup.pc \in {"selected", "done"} /\ PairwiseDistinct(dedup.texts)
        /\ 1 <= dedup.max_keep /\ dedup.max_keep <= Len(dedup.texts)) =>
        dedup.keep = [k \in 1..dedup.max_keep |-> k - 1]

\* Three unlike texts cut to the first two.
C22_Witness ==
    /\ dedup.pc = "selected"
    /\ dedup.texts = <<"t1", "other", "t3">>
    /\ dedup.max_keep = 2
    /\ dedup.keep = <<0, 1>>

\* C23: on two or more texts with an empty vocabulary semantic_dedup
\* returns the first min(M, max_keep) indices in input order, equal texts
\* included, and does not raise.
C23_EmptyVocabulary ==
    (dedup.pc \in {"selected", "done"} /\ Len(dedup.texts) >= 2
        /\ \A k \in 1..Len(dedup.texts) : dedup.texts[k] \in {"", "the"}) =>
        LET n == IF Len(dedup.texts) < dedup.max_keep
                 THEN Len(dedup.texts) ELSE dedup.max_keep
        IN  dedup.keep = [k \in 1..n |-> k - 1]

\* Three texts without tokens, two of them equal, and none kept under a
\* cap of 0.
C23_Witness ==
    /\ dedup.pc = "selected"
    /\ dedup.texts = <<"the", "the", "">>
    /\ dedup.max_keep = 0
    /\ dedup.keep = <<>>

\* C24: semantic_dedup returns the empty list for no text and [0] for
\* exactly one text, whatever max_keep is.
C24_NoneOrOne ==
    dedup.pc \in {"selected", "done"} =>
        /\ Len(dedup.texts) = 0 => dedup.keep = <<>>
        /\ Len(dedup.texts) = 1 => dedup.keep = <<0>>

\* One text without tokens under a cap of 0 is kept.
C24_Witness ==
    /\ dedup.pc = "selected"
    /\ dedup.texts = <<"">>
    /\ dedup.max_keep = 0
    /\ dedup.keep = <<0>>

\* the tags of markup in any case
MarkupTags == {"<html", "<HTML", "<body", "<div", "<DIV"}

\* C25 as stated: the text compress_text returns has at most
\* max_tokens * 4 characters, and when a plain text is cut the result is
\* its prefix of exactly that length.
C25_Claim ==
    compress.pc = "done" =>
        /\ compress.result.len <= compress.max_tokens * 4
        /\ (compress.html.len >= 10 /\ compress.html.occurs = {}
                /\ compress.result # compress.html) =>
              /\ compress.result.len = compress.max_tokens * 4
              /\ compress.result.len > 0 => compress.result.id = compress.html.id

\* C26 as stated: when the input contains '<html', '<body' or '<div' in
\* any case and the extraction yields nothing, compress_text returns the
\* empty string.
C26_Claim ==
    (compress.pc = "done" /\ compress.html.len > 0
        /\ compress.html.occurs \cap MarkupTags # {}
        /\ compress.html.main.len = 0) =>
        compress.result = Empty

\* C27 as stated: a non-empty input without markup tags comes back
\* unchanged when it fits the token budget, as its prefix of
\* max_tokens * 4 characters otherwise, and never as the empty string when
\* max_tokens > 0.
C27_Claim ==
    (compress.pc = "done" /\ compress.html.len > 0
        /\ compress.html.occurs \cap MarkupTags = {}) =>
        /\ compress.html.len \div 4 <= compress.max_tokens =>
              compress.result = compress.html
        /\ compress.html.len \div 4 > compress.max_tokens =>
              compress.result.len = compress.max_tokens * 4
        /\ compress.max_tokens > 0 => compress.result.len > 0

\* C28: in the list search_all returns every web Record precedes every
\* academic Record, and the Records of one query are in the order of the
\* results of its source.
C28_WebBeforeAcademic ==
    phase = "returned" =>
        \A i, j \in 1..Len(all_snippets) :
            i < j =>
                /\ ~(all_snippets[i].source_type = "semantic_scholar"
                        /\ all_snippets[j].source_type = "web")
                /\ (all_snippets[i].source_type = all_snippets[j].source_type
                        /\ all_snippets[i].title[2] = all_snippets[j].title[2]) =>
                      all_snippets[i].title[3] < all_snippets[j].title[3]

\* A run of one query of each kind has returned two web Records followed
\* by two academic Records.
C28_Witness ==
    /\ phase = "returned"
    /\ general = 1 /\ academic = 1
    /\ Len(all_snippets) = 4
    /\ all_snippets[2].source_type = "web"
    /\ all_snippets[3].source_type = "semantic_scholar"

\* C29: every Record filter_snippets returns is one of its inputs, with
\* the source kind unchanged and the body replaced by the extracted,
\* token-truncated text of its original body; that text is non-empty and
\* passes is_quality_page for the source kind; the survivors are in input
\* order.
C29_FilteredBodies ==
    filter.pc = "done" =>
        \A k \in 1..Len(filter.result) :
            LET r == filter.result[k]
                i == r.title[2]
                s == filter.snippets[i]
            IN  /\ i \in 1..Len(filter.snippets)
                /\ r.title = s.title /\ r.url = s.url
                /\ r.source_type = s.source_type
                /\ r.body = compress_text(s.body, MAX_TOKENS_PER_URL)
                /\ r.body.len > 0
                /\ is_quality_page(r.body, r.source_type)
                /\ k > 1 => filter.result[k - 1].title[2] < i

\* Of a text too short, a web text under 500 characters and a marked-up
\* page, only the page survives, cut to the token budget.
C29_Witness ==
    /\ filter.pc = "done"
    /\ Len(filter.snippets) = 3
    /\ filter.snippets[1].body.len = 5
    /\ filter.snippets[2].body.len = 499 /\ filter.snippets[2].source_type = "web"
    /\ filter.snippets[3].body.len = 9000
    /\ Len(filter.result) = 1
    /\ filter.result[1].title = <<"snippet", 3>>
    /\ filter.result[1].body.len = 8000

\* C30 as stated: filter_snippets returns at most the configured
\* MAX_SNIPPETS_TO_KEEP Records.
C30_Claim ==
    filter.pc = "done" => Len(filter.result) <= filter.MAX_SNIPPETS_TO_KEEP


\* C38: when semantic_dedup returns fewer than max_keep indices, every
\* text it did not keep has similarity above 0.85 to a kept text with a
\* smaller index.
C38_DroppedOnlyWhenCovered ==
    (dedup.pc \in {"selected", "done", "repeated"}
        /\ Len(dedup.keep) < dedup.max_keep) =>
        \A j \in 0..(Len(dedup.texts) - 1) :
            j \in KeptIndices
            \/ \E k \in 1..Len(dedup.keep) :
                  /\ dedup.keep[k] < j
                  /\ Sim(dedup.texts, dedup.texts[dedup.keep[k] + 1],
                         dedup.texts[j + 1]) > 7225

\* Two texts were kept under a cap of 3: the near-duplicate in the middle
\* is covered by the first text, and the unlike text is kept.
C38_Witness ==
    /\ dedup.pc = "selected"
    /\ dedup.texts = <<"t2", "t3", "other">>
    /\ dedup.max_keep = 3
    /\ dedup.keep = <<0, 2>>

\* two lists of texts in the same order with the same similarity values:
\* both without a vocabulary, or every pair as similar in one as in the
\* other
SameSimilarities(texts, others) ==
    /\ Len(texts) = Len(others)
    /\ EmptyVocabulary(texts) <=> EmptyVocabulary(others)
    /\ \A a, b \in 1..Len(texts) :
          a < b => Sim(texts, texts[a], texts[b])
                       = Sim(others, others[a], others[b])

\* C39: for every input and every max_keep the list semantic_dedup
\* returns is strictly ascending and holds only indices 0..M-1, none
\* twice, and a call with the same max_keep on texts in the same order
\* with the same similarity values returns the same list.
C39_AscendingValidDeterministic ==
    /\ dedup.pc \in {"selected", "done", "repeated"} =>
          /\ \A k \in 1..Len(dedup.keep) :
                dedup.keep[k] \in 0..(Len(dedup.texts) - 1)
          /\ \A a, b \in 1..Len(dedup.keep) :
                a < b => dedup.keep[a] < dedup.keep[b]
    /\ (dedup.pc = "repeated"
            /\ SameSimilarities(dedup.texts, dedup.repeat_texts)) =>
          dedup.repeat = dedup.keep

\* Two equal texts and an unlike one under a cap of 3, and a second call
\* in which a text without tokens stands for the unlike one: both calls
\* keep the first and the third text.
C39_Witness ==
    /\ dedup.pc = "repeated"
    /\ dedup.texts = <<"t1", "t1", "other">>
    /\ dedup.repeat_texts = <<"t1", "t1", "">>
    /\ SameSimilarities(dedup.texts, dedup.repeat_texts)
    /\ dedup.max_keep = MaxTexts
    /\ dedup.keep = <<0, 2>>
    /\ dedup.repeat = <<0, 2>>

\* C36: the gates of process_paper run in the order Citation Gate,
\* Relevance Gate, body selection: for a paper the Citation Gate rejects
\* the LLM is not called and nothing is fetched, whatever the subject, the
\* abstract and the urls are; for a paper the Relevance Gate rejects
\* nothing is fetched; a fetch is made only for a paper that yields a
\* Record.
C36_GateOrder ==
    paper.pc = "done" =>
        LET count == IF paper.p.has_citationCount THEN paper.p.citationCount ELSE 0
        IN  /\ count < MIN_CITATION_COUNT =>
                  /\ paper.out.rejected_by = "citation"
                  /\ paper.out.llm_calls = 0
                  /\ paper.out.fetched_urls = <<>>
            /\ paper.out.rejected_by = "relevance" =>
                  /\ count >= MIN_CITATION_COUNT
                  /\ paper.out.fetched_urls = <<>>
            /\ paper.out.fetched_urls # <<>> =>
                  (paper.out.rejected_by = "" /\ paper.out.snippet # NoRecord)

\* A paper with too few citations, a short abstract and a url, under a
\* subject and with a judge that would say yes: rejected by the Citation
\* Gate without a call to the LLM and without a fetch.
C36_Witness ==
    /\ paper.pc = "done"
    /\ paper.p.has_citationCount
    /\ paper.p.citationCount = MIN_CITATION_COUNT - 1
    /\ paper.subject = "topic"
    /\ paper.p.abstract = Text("abstract", 150)
    /\ paper.p.url = "http://paper"
    /\ paper.response = <<"y", "e", "s">>
    /\ paper.out.rejected_by = "citation"
    /\ paper.out.llm_calls = 0
    /\ paper.out.fetched_urls = <<>>

\* C31: a Record's source kind is fixed at creation and filter_snippets
\* changes nothing but the body of the Records it keeps: title, url,
\* metadata and abstract are those of the input and ref_num is unset; an
\* academic Record carries the abstract of its paper whatever its body
\* is, and a web Record has no abstract.
C31_OnlyBodyChanges ==
    /\ filter.pc = "done" =>
          \A k \in 1..Len(filter.result) :
              LET r == filter.result[k]
                  s == filter.snippets[r.title[2]]
              IN  /\ r.title = s.title /\ r.url = s.url
                  /\ r.metadata = s.metadata /\ r.abstract = s.abstract
                  /\ r.source_type = s.source_type
                  /\ r.ref_num = None
    /\ (paper.pc = "done" /\ paper.out.snippet # NoRecord) =>
          /\ paper.out.snippet.abstract = paper.p.abstract
          /\ paper.out.snippet.source_type = "semantic_scholar"
          /\ paper.out.snippet.ref_num = None
    /\ web.pc = "done" =>
          \A k \in 1..Len(web.snippets) :
              /\ web.snippets[k].abstract = None
              /\ web.snippets[k].source_type = "web"
              /\ web.snippets[k].ref_num = None
    /\ \A k \in 1..Len(all_snippets) :
          /\ all_snippets[k].ref_num = None
          /\ all_snippets[k].source_type = "web" => all_snippets[k].abstract = None

\* An academic Record came out of filter_snippets with the text of a
\* marked-up page as its body and with the abstract and the metadata it
\* went in with.
C31_Witness ==
    /\ filter.pc = "done"
    /\ Len(filter.snippets) = 1
    /\ filter.snippets[1].source_type = "semantic_scholar"
    /\ filter.snippets[1].body.len = 9000
    /\ Len(filter.result) = 1
    /\ filter.result[1].body.len = 8000
    /\ filter.result[1].abstract = Text("abstract", 150)
    /\ filter.result[1].metadata.citations = 10
    /\ filter.result[1].ref_num = None

\* C32 as stated: every Record has a non-empty title, the placeholder
\* being used for a title that is missing, null or empty.
C32_Claim ==
    /\ web.pc = "done" =>
          \A k \in 1..Len(web.snippets) : Truthy(web.snippets[k].title)
    /\ scholar.pc = "done" =>
          \A k \in 1..Len(scholar.snippets) : Truthy(scholar.snippets[k].title)
    /\ (paper.pc = "done" /\ paper.out.snippet # NoRecord) =>
          Truthy(paper.out.snippet.title)

\* C34 as stated: every web Record pairs one search result with the page
\* fetched from that result's url: its title, url and body belong to one
\* result of the response.
C34_Claim ==
    web.pc = "done" =>
        \A k \in 1..Len(web.snippets) :
            \E j \in 1..Len(web.results) :
                /\ web.results[j].url # ""
                /\ web.snippets[k].url = web.results[j].url
                /\ web.snippets[k].body = web.results[j].page
                /\ web.results[j].has_title =>
                      web.snippets[k].title = web.results[j].title

\* C35 as stated: a failure on one item of a response removes that item
\* only: the page of every result that has a url and a non-empty page is
\* the body of a Record, and every paper that passes the gates has its
\* Record in the output.
C35_Claim ==
    /\ web.pc = "done" =>
          \A j \in 1..Len(web.results) :
              (web.results[j].object /\ web.results[j].url # ""
                  /\ Truthy(web.results[j].page)) =>
                  \E k \in 1..Len(web.snippets) :
                      web.snippets[k].body = web.results[j].page
    /\ scholar.pc = "done" =>
          \A j \in 1..Len(scholar.papers) :
              LET out == process_paper(scholar.papers[j], scholar.subject,
                                       scholar.papers[j].answer,
                                       scholar.papers[j].fulltext)
              IN  out.snippet # NoRecord =>
                      \E k \in 1..Len(scholar.snippets) :
                          scholar.snippets[k] = out.snippet

\* C33 as stated: in the desktop run loop the stop signal is checked
\* between every two consecutive stages: no stage starts once the signal
\* is set.
C33_Claim == run.after_stop = {}

\* C37 as stated: generate_keywords returns exactly english_rounds general
\* and academic_rounds academic queries for every text of the LLM, and
\* never raises.
C37_Claim ==
    keywords.pc = "done" =>
        /\ ~keywords.out.raised
        /\ Len(keywords.out.general) = keywords.english_rounds
        /\ Len(keywords.out.academic) = keywords.academic_rounds
====
